---- MODULE Spec2Model ----
(***************************************************************************)
(* A model of the tweet-pulse ingestion core: the Bloom deduplicator, the  *)
(* Redis lock, the batch writer's flush, and the stream consumers that     *)
(* drive process_tweet.  Each subsystem has its own specification over the *)
(* shared variables; a specification leaves the other subsystems' state at *)
(* its initial value.                                                      *)
(***************************************************************************)
EXTENDS Integers, Sequences, FiniteSets, TLC

VARIABLES
  \* Deduplicator
  kv,         \* the Redis keyspace of the deduplicator: DedupKeys -> typed value
  bloom_key,  \* BloomDeduplicator.bloom_key of each caller's instance
  dedup,      \* each caller's position in is_duplicate, its locals and result
  falseDone,  \* history: ids for which a call has completed returning False
  reconciled, \* history: ids for which a call that began on a filter false
              \* positive has completed
  \* Redis lock
  locks,      \* the Redis lock keys: LockKeys -> [value, pttl in milliseconds]
  lock_obj,   \* the RedisLock objects: lock_key, timeout_seconds, _lock_value
  lock_ret,   \* history: each object's last operation, whether it had a
              \* _lock_value, what it returned, and what its last acquire returned
  grants,     \* history: successful acquires on a key since the key was last absent
  \* Batch writer
  writer,     \* the BatchWriter objects: batch_size, batch, counters, time since
              \* _last_flush_time
  flush,      \* the flush() calls in flight: [writer][task] -> position and locals
  next_rec,   \* records handed to add_tweet so far
  db,         \* the relational store: record -> number of upserts that wrote it
  \* Stream consumers and process_tweet
  stream,     \* ingest:stream: the tweet id of each message, in order of XADD
  group,      \* the consumer group "workers": created, last delivered, pending
  cons,       \* each StreamConsumer's position, the messages of its read, the
              \* one being processed
  cache,      \* the hot cache: the ids that have a tweet:<id> hash, the list
              \* tweets:recent, and the counter stats:cached_tweets
  staging,    \* Storage.staging_buffer, the staging files (name and rows), the
              \* clock's second, stats; history: whether the last call was a
              \* close() that returned, and the buffer it found; whether the
              \* last append or flush raised
  hist,       \* history: processor invocations per message, per consumer the
              \* messages whose processor raised, completed, were acked, and
              \* the tweets handed to add_tweet
  \* IngestionPipeline
  pipe,       \* the pipeline object: is_running, the position of a stop() call,
              \* the state of its run_forever task, and how often start() and
              \* stop() have gone through
  \* TweetEnricher
  enr,        \* an enrich() call: its position, what it was given (backend,
              \* length of the cleaned text, what the language detector and
              \* the sentiment backend answer), and what it has produced
  \* DistributedLockManager
  sweep       \* the cleanup_stale_locks calls in flight: position, the keys
              \* still to look at, the key in hand and the pttl read for it

dedupVars == <<kv, bloom_key, dedup, falseDone, reconciled>>
lockVars == <<locks, lock_obj, lock_ret, grants>>
writerVars == <<writer, flush, next_rec, db>>
pipelineVars == <<stream, group, cons, cache, staging, hist>>
lifeVars == <<pipe>>
enrichVars == <<enr>>
sweepVars == <<sweep>>
vars == <<dedupVars, lockVars, writerVars, pipelineVars, lifeVars, enrichVars, sweepVars>>

(***************************************************************************)
(* Bounds of the model.                                                    *)
(***************************************************************************)
\* Tweet ids are 1..NumIds.
NumIds == 3
\* Concurrent tasks that call BloomDeduplicator.is_duplicate.
NumCallers == 2

Ids == 1..NumIds
Callers == 1..NumCallers

(***************************************************************************)
(* Redis keyspace used by the deduplicator.  A key holds nothing, a Bloom  *)
(* filter (a set of bit positions) or a set (of tweet ids).                *)
(***************************************************************************)
DedupKeys == {"dedup:bloom", "test:bloom", "dedup:seen"}
FilterKeys == {"dedup:bloom", "test:bloom"}
NoKey == [type |-> "none", val |-> {}]


\* The bit positions a tweet id hashes to: two of NumIds positions, so that
\* adding some ids makes the filter report another id (a false positive).
BloomBits(id) == {id, (id % NumIds) + 1}

\* BF.EXISTS key id: 1 iff every bit of id is set; 0 for a missing key.
BfExists(store, key, id) ==
  store[key].type = "bloom" /\ BloomBits(id) \subseteq store[key].val

\* BF.ADD key id: sets the bits of id, creating the filter when missing.
BfAdd(store, key, id) ==
  [store EXCEPT ![key] = [type |-> "bloom", val |-> store[key].val \cup BloomBits(id)]]

\* SISMEMBER key id: "1"/"0" on a set or a missing key, a WRONGTYPE error on a
\* key that holds another type (here: a Bloom filter).
SIsMember(store, key, id) ==
  CASE store[key].type = "set"  -> IF id \in store[key].val THEN "1" ELSE "0"
    [] store[key].type = "none" -> "0"
    [] OTHER                    -> "WRONGTYPE"

\* SADD key id.
SAdd(store, key, id) ==
  [store EXCEPT ![key] = [type |-> "set", val |-> store[key].val \cup {id}]]

\* Members of the confirmation set dedup:seen.
Seen == IF kv["dedup:seen"].type = "set" THEN kv["dedup:seen"].val ELSE {}

\* BloomDeduplicator.__init__: the key argument is ignored, the filter key is fixed.
BloomKeyOf(key) == "dedup:bloom"

IdleCall == [pc |-> "idle", tweet_id |-> 0, result |-> "none",
             afterFalse |-> FALSE, fpAtStart |-> FALSE, alone |-> FALSE,
             afterReconciled |-> FALSE, lookupKey |-> "none"]

InitDedup ==
  /\ kv = [k \in DedupKeys |-> NoKey]
  /\ bloom_key \in {[c \in Callers |-> BloomKeyOf(k)] : k \in FilterKeys}
  /\ dedup = [c \in Callers |-> IdleCall]
  /\ falseDone = {}
  /\ reconciled = {}

\* Callers other than c that are inside is_duplicate(id).
InFlight(c, id) ==
  {d \in Callers \ {c} : dedup[d].pc \in {"novel", "present"} /\ dedup[d].tweet_id = id}

\* is_duplicate, line 13: exists = await bf().exists(bloom_key, tweet_id).
IsDuplicateExists(c, id) ==
  /\ dedup[c].pc = "idle"
  /\ LET exists == BfExists(kv, bloom_key[c], id)
         others == InFlight(c, id)
     IN dedup' = [d \in Callers |->
                    IF d = c
                    THEN [pc |-> IF exists THEN "present" ELSE "novel",
                          tweet_id |-> id, result |-> "none",
                          afterFalse |-> id \in falseDone,
                          fpAtStart |-> exists /\ id \notin Seen,
                          alone |-> others = {},
                          afterReconciled |-> id \in reconciled,
                          lookupKey |-> "none"]
                    ELSE IF d \in others THEN [dedup[d] EXCEPT !.alone = FALSE]
                    ELSE dedup[d]]
  /\ UNCHANGED <<kv, bloom_key, falseDone, reconciled, lockVars, writerVars, pipelineVars, lifeVars, enrichVars, sweepVars>>

\* is_duplicate, lines 14-16: the filter does not know the id.
IsDuplicateNovel(c) ==
  /\ dedup[c].pc = "novel"
  /\ kv' = BfAdd(kv, bloom_key[c], dedup[c].tweet_id)
  /\ dedup' = [dedup EXCEPT ![c].pc = "done", ![c].result = "False"]
  /\ falseDone' = falseDone \cup {dedup[c].tweet_id}
  /\ UNCHANGED <<bloom_key, reconciled, lockVars, writerVars, pipelineVars, lifeVars, enrichVars, sweepVars>>

\* is_duplicate, lines 18-23: the filter knows the id; the lookup is made on
\* bloom_key.  A WRONGTYPE reply raises out of is_duplicate.
IsDuplicateConfirm(c) ==
  /\ dedup[c].pc = "present"
  /\ LET id == dedup[c].tweet_id
         is_dup == SIsMember(kv, bloom_key[c], id)
     IN /\ kv' = IF is_dup = "0"
                 THEN BfAdd(SAdd(kv, "dedup:seen", id), bloom_key[c], id)
                 ELSE kv
        /\ dedup' = [dedup EXCEPT ![c].pc = "done",
                                  ![c].lookupKey = bloom_key[c],
                                  ![c].result = CASE is_dup = "1" -> "True"
                                                  [] is_dup = "0" -> "False"
                                                  [] OTHER -> "raise"]
        /\ falseDone' = IF is_dup = "0" THEN falseDone \cup {id} ELSE falseDone
        /\ reconciled' = IF dedup[c].fpAtStart /\ is_dup # "WRONGTYPE"
                         THEN reconciled \cup {id} ELSE reconciled
  /\ UNCHANGED <<bloom_key, lockVars, writerVars, pipelineVars, lifeVars, enrichVars, sweepVars>>

\* The caller takes the result (or the exception) and is free to call again.
IsDuplicateReturn(c) ==
  /\ dedup[c].pc = "done"
  /\ dedup' = [dedup EXCEPT ![c] = IdleCall]
  /\ UNCHANGED <<kv, bloom_key, falseDone, reconciled, lockVars, writerVars, pipelineVars, lifeVars, enrichVars, sweepVars>>

NextDedup ==
  \/ \E c \in Callers, id \in Ids : IsDuplicateExists(c, id)
  \/ \E c \in Callers : IsDuplicateNovel(c)
  \/ \E c \in Callers : IsDuplicateConfirm(c)
  \/ \E c \in Callers : IsDuplicateReturn(c)

(***************************************************************************)
(* RedisLock (distributed/locking.py) over the Redis lock keys.            *)
(***************************************************************************)
\* RedisLock objects of the lock specification.
NumLocks == 2
\* batch_size values in use; the flush lock key is derived from batch_size.
NumBatchSizes == 1

\* RedisLock.__init__: timeout_seconds defaults to 30; flush passes 30 too.
LockTimeoutSeconds == 30
\* flush extends the lock by 15 seconds.
ExtendSeconds == 15

\* BatchWriter instances (processes) that share the lock store.
NumWriters == 2
\* Tasks add_tweet has created with create_task(self.flush()) and that have not
\* finished, per writer; slot 0 is the flush that run_forever awaits.
NumFlushTasks == 1
Writers == 1..NumWriters
FlushSlots == 0..NumFlushTasks

LockObjs == 1..NumLocks
\* flush: lock_key = f"batch_writer_flush:{self.batch_size}".
LockKey(batch_size) == <<"batch_writer_flush", batch_size>>
BatchSizes == 2..(NumBatchSizes + 1)
LockKeys == {LockKey(b) : b \in BatchSizes}
\* A key that does not exist: no value (0 stands for None), no time to live.
NoLock == [value |-> 0, pttl |-> 0]
\* PTTL of a key that exists without expiration, and of a key that does not
\* exist.
NoExpiry == -1
NoSuchKey == -2


\* SET key value EX seconds, without NX: what acquire must not do.
SetEx(store, key, value, seconds) ==
  [store EXCEPT ![key] = [value |-> value, pttl |-> seconds * 1000]]

\* SET key value EX seconds NX: sets only a key that does not exist.
SetNxEx(store, key, value, seconds) ==
  IF store[key].value = 0
  THEN [store EXCEPT ![key] = [value |-> value, pttl |-> seconds * 1000]]
  ELSE store

\* A naive DEL key, whoever owns it: what release must not do.
NaiveDelete(store, key, value) == [store EXCEPT ![key] = NoLock]

\* The release script: if GET key == value then DEL key.
CompareAndDelete(store, key, value) ==
  IF store[key].value = value THEN [store EXCEPT ![key] = NoLock] ELSE store

\* The extend script: if GET key == value then PEXPIRE key ms.
CompareAndPExpire(store, key, value, ms) ==
  IF store[key].value = value THEN [store EXCEPT ![key].pttl = ms] ELSE store

\* str(uuid.uuid4()): a value that nobody holds and no key stores.  Every owner
\* of a RedisLock (a lock object, a flush call) draws from two values of its
\* own; at most one of them is stored, under the owner's key, and the draw
\* is the other one.
Uuid4(owner) ==
  IF \E k \in LockKeys : locks[k].value = 2 * owner - 1 THEN 2 * owner
  ELSE 2 * owner - 1
\* The RedisLock that flush call t of writer w builds.
FlushOwner(w, t) == NumLocks + (w - 1) * (NumFlushTasks + 1) + t + 1

\* History: a key that went away has no grant left.
GrantsAfter(store, g) == [k \in LockKeys |-> IF store[k].value = 0 THEN 0 ELSE g[k]]

InitLock ==
  /\ locks = [k \in LockKeys |-> NoLock]
  /\ lock_obj \in [LockObjs -> [lock_key : LockKeys,
                                timeout_seconds : {LockTimeoutSeconds},
                                lock_value : {0}]]
  /\ lock_ret = [l \in LockObjs |-> [op |-> "none", had_value |-> FALSE,
                                     ret |-> FALSE, acquired |-> FALSE,
                                     raised |-> FALSE]]
  /\ grants = [k \in LockKeys |-> 0]

\* RedisLock.acquire: draw a uuid4, SET NX EX, return whether the key was set.
Acquire(l) ==
  LET value == Uuid4(l)
      key == lock_obj[l].lock_key
      after == SetNxEx(locks, key, value, lock_obj[l].timeout_seconds)
      success == after[key].value = value
  IN /\ lock_obj' = [lock_obj EXCEPT ![l].lock_value = value]
     /\ locks' = after
     /\ lock_ret' = [lock_ret EXCEPT ![l] = [op |-> "acquire", had_value |-> TRUE,
                                             ret |-> success, acquired |-> success,
                                             raised |-> FALSE]]
     /\ grants' = [grants EXCEPT ![key] = IF success THEN @ + 1 ELSE @]
     /\ UNCHANGED <<dedupVars, writerVars, pipelineVars, lifeVars, enrichVars, sweepVars>>

\* RedisLock.release: nothing without a _lock_value; else compare-and-delete, and
\* the _lock_value is dropped whatever the script answered.
Release(l) ==
  LET value == lock_obj[l].lock_value
      key == lock_obj[l].lock_key
      after == IF value = 0 THEN locks ELSE CompareAndDelete(locks, key, value)
  IN /\ locks' = after
     /\ lock_obj' = [lock_obj EXCEPT ![l].lock_value = 0]
     /\ lock_ret' = [lock_ret EXCEPT ![l].op = "release", ![l].had_value = (value # 0),
                                     ![l].ret = (value # 0 /\ after # locks),
                                     ![l].raised = FALSE]
     /\ grants' = GrantsAfter(after, grants)
     /\ UNCHANGED <<dedupVars, writerVars, pipelineVars, lifeVars, enrichVars, sweepVars>>

\* RedisLock.extend(additional_seconds): None means timeout_seconds.
Extend(l, additional_seconds) ==
  LET value == lock_obj[l].lock_value
      key == lock_obj[l].lock_key
      seconds == IF additional_seconds = 0 THEN lock_obj[l].timeout_seconds
                 ELSE additional_seconds
      ok == value # 0 /\ locks[key].value = value
  IN /\ locks' = IF value = 0 THEN locks
                 ELSE CompareAndPExpire(locks, key, value, seconds * 1000)
     /\ lock_ret' = [lock_ret EXCEPT ![l].op = "extend", ![l].had_value = (value # 0),
                                     ![l].ret = ok, ![l].raised = FALSE]
     /\ UNCHANGED <<lock_obj, grants, dedupVars, writerVars, pipelineVars, lifeVars, enrichVars, sweepVars>>

\* Redis expires keys: ms milliseconds pass, and a key whose time to live is
\* used up is removed.
Elapse(store, ms) ==
  [k \in DOMAIN store |->
     IF store[k].value = 0 \/ store[k].pttl = NoExpiry THEN store[k]
     ELSE IF store[k].pttl <= ms THEN NoLock
     ELSE [store[k] EXCEPT !.pttl = @ - ms]]

\* Time passes in steps of the shortest duration the program sets on a key.
PassTime ==
  /\ \E k \in LockKeys : locks[k].value # 0
  /\ locks' = Elapse(locks, ExtendSeconds * 1000)
  /\ grants' = GrantsAfter(locks', grants)
  /\ UNCHANGED <<lock_obj, lock_ret, dedupVars, writerVars, pipelineVars, lifeVars, enrichVars, sweepVars>>

NextLock ==
  \/ \E l \in LockObjs : Acquire(l)
  \/ \E l \in LockObjs : Release(l)
  \/ \E l \in LockObjs, s \in {0, ExtendSeconds} : Extend(l, s)
  \/ PassTime

\* RedisLock.__aenter__, lines 27-30: acquire is awaited, what it returns is
\* dropped, and the body of the async with begins.
AEnter(l) ==
  LET value == Uuid4(l)
      key == lock_obj[l].lock_key
      after == SetNxEx(locks, key, value, lock_obj[l].timeout_seconds)
      success == after[key].value = value
  IN /\ lock_ret[l].op # "aenter"
     /\ lock_obj' = [lock_obj EXCEPT ![l].lock_value = value]
     /\ locks' = after
     /\ lock_ret' = [lock_ret EXCEPT ![l] = [op |-> "aenter", had_value |-> TRUE,
                                             ret |-> success, acquired |-> success,
                                             raised |-> FALSE]]
     /\ grants' = [grants EXCEPT ![key] = IF success THEN @ + 1 ELSE @]
     /\ UNCHANGED <<dedupVars, writerVars, pipelineVars, lifeVars, enrichVars, sweepVars>>

\* RedisLock.__aexit__, lines 32-34: the body is over, release.
AExit(l) ==
  /\ lock_ret[l].op = "aenter"
  /\ Release(l)

\* The lock objects used with acquire, extend and release, and as async with
\* blocks.
NextWith ==
  \/ \E l \in LockObjs : lock_ret[l].op # "aenter" /\ Acquire(l)
  \/ \E l \in LockObjs : lock_ret[l].op # "aenter" /\ Release(l)
  \/ \E l \in LockObjs : lock_ret[l].op # "aenter" /\ Extend(l, ExtendSeconds)
  \/ \E l \in LockObjs : AEnter(l)
  \/ \E l \in LockObjs : AExit(l)
  \/ PassTime

\* RedisLock.acquire while the lock store cannot be reached: the uuid4 is drawn
\* and kept (line 43), redis.set raises (lines 46-51), and nothing around it
\* catches: the exception leaves acquire, and acquire_lock (line 160) as well.
AcquireUnreachable(l) ==
  /\ lock_obj' = [lock_obj EXCEPT ![l].lock_value = Uuid4(l)]
  /\ lock_ret' = [lock_ret EXCEPT ![l] = [op |-> "acquire", had_value |-> TRUE,
                                          ret |-> FALSE, acquired |-> FALSE,
                                          raised |-> TRUE]]
  /\ UNCHANGED <<locks, grants, dedupVars, writerVars, pipelineVars, lifeVars, enrichVars, sweepVars>>

\* RedisLock.release while the lock store cannot be reached: redis.eval raises
\* (lines 81-85) inside a try that has a finally and no except (lines 70, 94-95):
\* the _lock_value is dropped, the key stays, and the exception leaves release.
ReleaseUnreachable(l) ==
  /\ lock_obj[l].lock_value # 0
  /\ lock_obj' = [lock_obj EXCEPT ![l].lock_value = 0]
  /\ lock_ret' = [lock_ret EXCEPT ![l].op = "release", ![l].had_value = TRUE,
                                  ![l].ret = FALSE, ![l].raised = TRUE]
  /\ UNCHANGED <<locks, grants, dedupVars, writerVars, pipelineVars, lifeVars, enrichVars, sweepVars>>

\* The lock objects over a lock store that can be out of reach for a call.
NextLockOutage ==
  \/ NextLock
  \/ \E l \in LockObjs : AcquireUnreachable(l)
  \/ \E l \in LockObjs : ReleaseUnreachable(l)

(***************************************************************************)
(* BatchWriter (ingestion/batch_writer.py): the in-memory batch, the flush *)
(* calls in flight and the tweets table they upsert into.                  *)
(***************************************************************************)
\* Records handed to add_tweet in total.
MaxRecords == 3
\* flush calls that copy a non-empty batch, over all writers.
MaxFlushes == 3

\* BatchWriter.__init__: max_retries defaults to 3; the pipeline passes 3.
MaxRetries == 3
\* BatchWriter.__init__: max_wait_seconds defaults to 60.
MaxWaitSeconds == 60

Records == 1..MaxRecords

\* A slot without a flush call.
\* attempts, sleep_seconds and extends are history: the calls of
\* _write_batch_to_db and of extend that the flush has made, and the length of
\* its last sleep.
IdleFlush ==
  [pc |-> "idle", tweets_to_save |-> <<>>, lock_value |-> 0, lock_acquired |-> FALSE,
   attempt |-> 0, wrote |-> "none", ret |-> "none",
   attempts |-> 0, sleep_seconds |-> 0, extends |-> 0]

\* flush, line 150: asyncio.sleep(2 ** attempt).
BackoffSeconds(attempt) == 2 ^ attempt

\* The copy dropped: what flush must not do.
RequeueDropped(tweets_to_save, batch) == batch

\* The copy put behind the batch: what flush must not do.
RequeueAtTail(tweets_to_save, batch) == batch \o tweets_to_save

\* flush, lines 126 and 157: self.batch = tweets_to_save + self.batch.
Requeue(tweets_to_save, batch) == tweets_to_save \o batch

\* repo.upsert_many(records): every record of the batch is written.
UpsertMany(table, tweets) ==
  [r \in DOMAIN table |->
     IF \E i \in 1..Len(tweets) : tweets[i] = r THEN table[r] + 1 ELSE table[r]]

\* The flush calls made so far that found records to copy.
RECURSIVE FlushesOf(_)
FlushesOf(ws) ==
  IF ws = {} THEN 0
  ELSE LET w == CHOOSE x \in ws : TRUE IN writer[w].flushes + FlushesOf(ws \ {w})

InitWriter ==
  /\ writer \in [Writers -> [batch_size : BatchSizes, max_retries : {MaxRetries},
                             max_wait_seconds : {MaxWaitSeconds}, is_running : {TRUE},
                             batch : {<<>>}, since_flush : {0},
                             total_processed : {0}, total_failed : {0},
                             total_batches_written : {0}, flushes : {0}]]
  /\ flush = [w \in Writers |-> [t \in FlushSlots |-> IdleFlush]]
  /\ next_rec = 1
  /\ db = [r \in Records |-> 0]

\* flush without line 115: the records stay in self.batch after the copy.
FlushCopyKeeps(w, t) ==
  IF writer[w].batch = <<>>
  THEN /\ flush' = [flush EXCEPT ![w][t] = [IdleFlush EXCEPT !.pc = "done", !.ret = "True"]]
       /\ UNCHANGED writer
  ELSE /\ FlushesOf(Writers) < MaxFlushes
       /\ flush' = [flush EXCEPT ![w][t] =
                      [IdleFlush EXCEPT !.pc = "acquire",
                                        !.tweets_to_save = writer[w].batch]]
       /\ writer' = [writer EXCEPT ![w].flushes = @ + 1]

\* flush, lines 108-118: under the mutex, return True on an empty batch, else
\* copy and clear it; then build the RedisLock for batch_writer_flush:<batch_size>.
FlushCopy(w, t) ==
  IF writer[w].batch = <<>>
  THEN /\ flush' = [flush EXCEPT ![w][t] = [IdleFlush EXCEPT !.pc = "done", !.ret = "True"]]
       /\ UNCHANGED writer
  ELSE /\ FlushesOf(Writers) < MaxFlushes
       /\ flush' = [flush EXCEPT ![w][t] =
                      [IdleFlush EXCEPT !.pc = "acquire",
                                        !.tweets_to_save = writer[w].batch]]
       /\ writer' = [writer EXCEPT ![w].batch = <<>>, ![w].flushes = @ + 1]

\* run_forever that flushes a full batch only, never an old one.
RunForeverSizeOnly(w) ==
  /\ writer[w].is_running
  /\ flush[w][0].pc = "idle"
  /\ Len(writer[w].batch) >= writer[w].batch_size
  /\ FlushCopy(w, 0)
  /\ UNCHANGED <<next_rec, db, dedupVars, lockVars, pipelineVars, lifeVars, enrichVars, sweepVars>>

\* run_forever, lines 77-94: while is_running, after the sleep, flush when the
\* batch is full or is non-empty and max_wait_seconds old; the flush is awaited.
RunForever(w) ==
  /\ writer[w].is_running
  /\ flush[w][0].pc = "idle"
  /\ \/ Len(writer[w].batch) >= writer[w].batch_size
     \/ /\ Len(writer[w].batch) > 0
        /\ writer[w].since_flush >= writer[w].max_wait_seconds
  /\ FlushCopy(w, 0)
  /\ UNCHANGED <<next_rec, db, dedupVars, lockVars, pipelineVars, lifeVars, enrichVars, sweepVars>>

\* add_tweet, lines 220-229: append under the mutex; a full batch makes a task
\* of self.flush(), which starts to run later.
add_tweet(w, tweet_data) ==
  LET batch == Append(writer[w].batch, tweet_data)
      batch_full == Len(batch) >= writer[w].batch_size
  IN /\ writer' = [writer EXCEPT ![w].batch = batch]
     /\ IF batch_full
        THEN \E t \in FlushSlots \ {0} :
               /\ flush[w][t].pc = "idle"
               /\ flush' = [flush EXCEPT ![w][t].pc = "start"]
        ELSE UNCHANGED flush

\* A caller hands the next record to add_tweet.
AddTweet(w) ==
  /\ next_rec <= MaxRecords
  /\ add_tweet(w, next_rec)
  /\ next_rec' = next_rec + 1
  /\ UNCHANGED <<db, dedupVars, lockVars, pipelineVars, lifeVars, enrichVars, sweepVars>>

\* The created task runs flush up to its first await.
FlushStart(w, t) ==
  /\ flush[w][t].pc = "start"
  /\ FlushCopy(w, t)
  /\ UNCHANGED <<next_rec, db, dedupVars, lockVars, pipelineVars, lifeVars, enrichVars, sweepVars>>

\* flush, line 121: distributed_lock.acquire() with timeout_seconds=30.
FlushAcquire(w, t) ==
  LET value == Uuid4(FlushOwner(w, t))
      key == LockKey(writer[w].batch_size)
      after == SetNxEx(locks, key, value, LockTimeoutSeconds)
      success == after[key].value = value
  IN /\ flush[w][t].pc = "acquire"
     /\ locks' = after
     /\ grants' = [grants EXCEPT ![key] = IF success THEN @ + 1 ELSE @]
     /\ flush' = [flush EXCEPT ![w][t].pc = "acquired", ![w][t].lock_value = value,
                               ![w][t].lock_acquired = success]
     /\ UNCHANGED <<writer, next_rec, db, lock_obj, lock_ret, dedupVars, pipelineVars, lifeVars, enrichVars, sweepVars>>

\* flush, lines 122-128: the lock was not acquired; the copy goes back in front
\* of the batch, total_failed counts it, and the call returns False.
FlushContention(w, t) ==
  /\ flush[w][t].pc = "acquired"
  /\ ~flush[w][t].lock_acquired
  /\ writer' = [writer EXCEPT
                  ![w].batch = Requeue(flush[w][t].tweets_to_save, @),
                  ![w].total_failed = @ + Len(flush[w][t].tweets_to_save)]
  /\ flush' = [flush EXCEPT ![w][t].pc = "release", ![w][t].ret = "False"]
  /\ UNCHANGED <<next_rec, db, dedupVars, lockVars, pipelineVars, lifeVars, enrichVars, sweepVars>>

\* flush, lines 130-132: the lock was acquired; the retry loop starts.
FlushLocked(w, t) ==
  /\ flush[w][t].pc = "acquired"
  /\ flush[w][t].lock_acquired
  /\ flush' = [flush EXCEPT ![w][t].pc = "write", ![w][t].attempt = 0]
  /\ UNCHANGED <<writer, next_rec, db, dedupVars, lockVars, pipelineVars, lifeVars, enrichVars, sweepVars>>

\* _write_batch_to_db, lines 164-207: the upsert commits and returns True, or it
\* raises and the session is rolled back.
WriteBatchToDb(w, t, ok) ==
  /\ flush[w][t].pc = "write"
  /\ db' = IF ok THEN UpsertMany(db, flush[w][t].tweets_to_save) ELSE db
  /\ flush' = [flush EXCEPT ![w][t].pc = "written",
                            ![w][t].wrote = IF ok THEN "ok" ELSE "raised",
                            ![w][t].attempts = @ + 1]
  /\ UNCHANGED <<writer, next_rec, dedupVars, lockVars, pipelineVars, lifeVars, enrichVars, sweepVars>>

\* flush, lines 135-144: the write succeeded.
FlushSucceeded(w, t) ==
  /\ flush[w][t].pc = "written"
  /\ flush[w][t].wrote = "ok"
  /\ writer' = [writer EXCEPT
                  ![w].total_processed = @ + Len(flush[w][t].tweets_to_save),
                  ![w].total_batches_written = @ + 1,
                  ![w].since_flush = 0]
  /\ flush' = [flush EXCEPT ![w][t].pc = "release", ![w][t].ret = "True"]
  /\ UNCHANGED <<next_rec, db, dedupVars, lockVars, pipelineVars, lifeVars, enrichVars, sweepVars>>

\* flush, lines 145-159: the write raised.  Before the last attempt the call
\* sleeps; after the last one the copy goes back in front of the batch.
FlushAttemptFailed(w, t) ==
  /\ flush[w][t].pc = "written"
  /\ flush[w][t].wrote = "raised"
  /\ IF flush[w][t].attempt < writer[w].max_retries - 1
     THEN /\ flush' = [flush EXCEPT
                          ![w][t].pc = "sleep",
                          ![w][t].sleep_seconds = BackoffSeconds(flush[w][t].attempt)]
          /\ UNCHANGED writer
     ELSE /\ writer' = [writer EXCEPT
                          ![w].batch = Requeue(flush[w][t].tweets_to_save, @),
                          ![w].total_failed = @ + Len(flush[w][t].tweets_to_save)]
          /\ flush' = [flush EXCEPT ![w][t].pc = "release", ![w][t].ret = "False"]
  /\ UNCHANGED <<next_rec, db, dedupVars, lockVars, pipelineVars, lifeVars, enrichVars, sweepVars>>

\* flush that extends the lock after every sleep, the first one too.
FlushBackoffExtendsAlways(w, t) ==
  /\ flush[w][t].pc = "sleep"
  /\ flush' = [flush EXCEPT ![w][t].pc = "extend"]
  /\ UNCHANGED <<writer, next_rec, db, dedupVars, lockVars, pipelineVars, lifeVars, enrichVars, sweepVars>>

\* flush, lines 150-153: asyncio.sleep(2 ** attempt) is over; from the second
\* failure on the lock is extended before the next attempt.
FlushBackoff(w, t) ==
  /\ flush[w][t].pc = "sleep"
  /\ flush' = IF flush[w][t].attempt >= 1
              THEN [flush EXCEPT ![w][t].pc = "extend"]
              ELSE [flush EXCEPT ![w][t].pc = "write", ![w][t].attempt = @ + 1]
  /\ UNCHANGED <<writer, next_rec, db, dedupVars, lockVars, pipelineVars, lifeVars, enrichVars, sweepVars>>

\* flush, line 153: distributed_lock.extend(additional_seconds=15); its result
\* is not looked at, and the next attempt follows.
FlushExtend(w, t) ==
  /\ flush[w][t].pc = "extend"
  /\ locks' = CompareAndPExpire(locks, LockKey(writer[w].batch_size),
                                flush[w][t].lock_value, ExtendSeconds * 1000)
  /\ flush' = [flush EXCEPT ![w][t].pc = "write", ![w][t].attempt = @ + 1,
                            ![w][t].extends = @ + 1]
  /\ UNCHANGED <<writer, next_rec, db, lock_obj, lock_ret, grants, dedupVars, pipelineVars, lifeVars, enrichVars, sweepVars>>

\* flush, lines 161-162: finally, distributed_lock.release(); then the call
\* returns what it had decided.
FlushRelease(w, t) ==
  /\ flush[w][t].pc = "release"
  /\ locks' = CompareAndDelete(locks, LockKey(writer[w].batch_size),
                               flush[w][t].lock_value)
  /\ grants' = GrantsAfter(locks', grants)
  /\ flush' = [flush EXCEPT ![w][t].pc = "done", ![w][t].lock_value = 0]
  /\ UNCHANGED <<writer, next_rec, db, lock_obj, lock_ret, dedupVars, pipelineVars, lifeVars, enrichVars, sweepVars>>

\* The caller has the result: the task is finished, or run_forever loops.
FlushReturn(w, t) ==
  /\ flush[w][t].pc = "done"
  /\ flush' = [flush EXCEPT ![w][t] = IdleFlush]
  /\ UNCHANGED <<writer, next_rec, db, dedupVars, lockVars, pipelineVars, lifeVars, enrichVars, sweepVars>>

\* Time passes for the writers as for the lock store: the flush lock runs down
\* and the last flush gets older.
Tick ==
  /\ \/ \E k \in LockKeys : locks[k].value # 0
     \/ \E w \in Writers : writer[w].since_flush < writer[w].max_wait_seconds
  /\ locks' = Elapse(locks, ExtendSeconds * 1000)
  /\ grants' = GrantsAfter(locks', grants)
  /\ writer' = [w \in Writers |->
                  [writer[w] EXCEPT !.since_flush =
                     IF @ + ExtendSeconds >= writer[w].max_wait_seconds
                     THEN writer[w].max_wait_seconds ELSE @ + ExtendSeconds]]
  /\ UNCHANGED <<flush, next_rec, db, lock_obj, lock_ret, dedupVars, pipelineVars, lifeVars, enrichVars, sweepVars>>

NextFlush ==
  \/ \E w \in Writers : AddTweet(w)
  \/ \E w \in Writers : RunForever(w)
  \/ \E w \in Writers, t \in FlushSlots : FlushStart(w, t)
  \/ \E w \in Writers, t \in FlushSlots : FlushAcquire(w, t)
  \/ \E w \in Writers, t \in FlushSlots : FlushContention(w, t)
  \/ \E w \in Writers, t \in FlushSlots : FlushLocked(w, t)
  \/ \E w \in Writers, t \in FlushSlots, ok \in BOOLEAN : WriteBatchToDb(w, t, ok)
  \/ \E w \in Writers, t \in FlushSlots : FlushSucceeded(w, t)
  \/ \E w \in Writers, t \in FlushSlots : FlushAttemptFailed(w, t)
  \/ \E w \in Writers, t \in FlushSlots : FlushBackoff(w, t)
  \/ \E w \in Writers, t \in FlushSlots : FlushExtend(w, t)
  \/ \E w \in Writers, t \in FlushSlots : FlushRelease(w, t)
  \/ \E w \in Writers, t \in FlushSlots : FlushReturn(w, t)
  \/ Tick

\* One writer, with its run_forever and the tasks add_tweet creates, against
\* a relational store that raises as it likes.
RetryWriter == 1
NextRetry ==
  \/ AddTweet(RetryWriter)
  \/ RunForever(RetryWriter)
  \/ \E t \in FlushSlots : FlushStart(RetryWriter, t)
  \/ \E t \in FlushSlots : FlushAcquire(RetryWriter, t)
  \/ \E t \in FlushSlots : FlushContention(RetryWriter, t)
  \/ \E t \in FlushSlots : FlushLocked(RetryWriter, t)
  \/ \E t \in FlushSlots, ok \in BOOLEAN : WriteBatchToDb(RetryWriter, t, ok)
  \/ \E t \in FlushSlots : FlushSucceeded(RetryWriter, t)
  \/ \E t \in FlushSlots : FlushAttemptFailed(RetryWriter, t)
  \/ \E t \in FlushSlots : FlushBackoff(RetryWriter, t)
  \/ \E t \in FlushSlots : FlushExtend(RetryWriter, t)
  \/ \E t \in FlushSlots : FlushRelease(RetryWriter, t)
  \/ \E t \in FlushSlots : FlushReturn(RetryWriter, t)
  \/ Tick

\* The writers against a relational store that is healthy: no upsert raises.
NextFlushHealthy ==
  \/ \E w \in Writers : AddTweet(w)
  \/ \E w \in Writers : RunForever(w)
  \/ \E w \in Writers, t \in FlushSlots : FlushStart(w, t)
  \/ \E w \in Writers, t \in FlushSlots : FlushAcquire(w, t)
  \/ \E w \in Writers, t \in FlushSlots : FlushContention(w, t)
  \/ \E w \in Writers, t \in FlushSlots : FlushLocked(w, t)
  \/ \E w \in Writers, t \in FlushSlots : WriteBatchToDb(w, t, TRUE)
  \/ \E w \in Writers, t \in FlushSlots : FlushSucceeded(w, t)
  \/ \E w \in Writers, t \in FlushSlots : FlushRelease(w, t)
  \/ \E w \in Writers, t \in FlushSlots : FlushReturn(w, t)
  \/ Tick

\* flush, line 121, while the lock store cannot be reached: acquire raises
\* inside the try of line 120, the copy is not put back, and the finally of
\* lines 161-162 runs with the exception pending.
FlushAcquireUnreachable(w, t) ==
  /\ flush[w][t].pc = "acquire"
  /\ flush' = [flush EXCEPT ![w][t].pc = "release", ![w][t].ret = "raised",
                            ![w][t].lock_value = Uuid4(FlushOwner(w, t))]
  /\ UNCHANGED <<writer, next_rec, db, dedupVars, lockVars, pipelineVars, lifeVars, enrichVars, sweepVars>>

\* flush, lines 161-162, while the lock store cannot be reached: release
\* raises in the finally, which replaces the value flush was returning; the
\* key stays until it expires.
FlushReleaseUnreachable(w, t) ==
  /\ flush[w][t].pc = "release"
  /\ flush' = [flush EXCEPT ![w][t].pc = "done", ![w][t].lock_value = 0,
                            ![w][t].ret = "raised"]
  /\ UNCHANGED <<writer, next_rec, db, dedupVars, lockVars, pipelineVars, lifeVars, enrichVars, sweepVars>>

\* The writers, no upsert raising, over a lock store that can be out of reach
\* for a call.
NextFlushOutage ==
  \/ NextFlushHealthy
  \/ \E w \in Writers, t \in FlushSlots : FlushAcquireUnreachable(w, t)
  \/ \E w \in Writers, t \in FlushSlots : FlushReleaseUnreachable(w, t)

\* What one flush call can do next when no upsert raises.
FlushNextHealthy(w, t) ==
  \/ FlushStart(w, t)
  \/ FlushAcquire(w, t)
  \/ FlushContention(w, t)
  \/ FlushLocked(w, t)
  \/ WriteBatchToDb(w, t, TRUE)
  \/ FlushSucceeded(w, t)
  \/ FlushRelease(w, t)
  \/ FlushReturn(w, t)

(***************************************************************************)
(* StreamConsumer.start (ingestion/consumer.py) over the stream's consumer *)
(* group, with IngestionPipeline.process_tweet as the processor.  The      *)
(* workers of one pipeline share its deduplicator, storage and writer.     *)
(***************************************************************************)
\* Messages written to ingest:stream in total.
MaxMsgs == 3
\* Storage.buffer_limit, scaled down.
BufferLimit == 2

\* xreadgroup(..., count=10, ...).
ReadCount == 10

Msgs == 1..MaxMsgs
Workers == Callers
\* num_workers of the pipeline: its consumers are worker-0 .. worker-(n-1).
NumPipelineWorkers == 1
PipelineWorkers == 1..NumPipelineWorkers
\* The BatchWriter that IngestionPipeline.start builds.
PipelineWriter == CHOOSE w \in Writers : \A v \in Writers : w <= v

\* How many seconds the clock of the staging file names can advance.
MaxSeconds == 1
Seconds == 0..MaxSeconds
\* How long a staging buffer grows when its flushes fail.
MaxBuffer == 3
\* How many records a Storage on its own is handed.
MaxStaged == 4
NotClosed == [returned |-> FALSE, had |-> <<>>]
\* How many entries the trim of tweets:recent keeps.  The code keeps 1000
\* (LTRIM tweets:recent 0 999); the model keeps fewer, so that the messages of
\* a run overfill the list and the trim has something to cut.
RecentLimit == 2
\* The hot cache of an empty Redis.
NewCache == [hashes |-> {}, recent |-> <<>>, cached_tweets |-> 0]

\* Storage.__init__ (ingestion/storage.py, lines 15-35): an empty buffer; the
\* staging directory is empty.
\* buffer_lock when no task holds it.
FreeBufferLock == [holder |-> 0, pc |-> "none", name |-> 0]
NewStorage ==
  [buffer |-> <<>>, files |-> <<>>, now |-> 0, closed |-> NotClosed,
   stats |-> [staged_tweets |-> 0, flushes |-> 0], raised |-> FALSE,
   buffer_lock |-> FreeBufferLock]

InitPipeline ==
  /\ stream = <<>>
  /\ group = [created |-> FALSE, last_delivered |-> 0, pel |-> [m \in Msgs |-> 0]]
  /\ \E s \in {"$", "0"} :
       cons = [c \in Workers |-> [pc |-> "init", start_from |-> s,
                                  msgs |-> <<>>, cur |-> 0]]
  /\ cache = NewCache
  /\ staging = NewStorage
  /\ hist = [invoked |-> [m \in Msgs |-> 0], raised |-> {}, completed |-> {},
             acked |-> {}, added |-> {}]

\* The connector pushes a tweet to the stream.
XAdd(id) ==
  /\ Len(stream) < MaxMsgs
  /\ stream' = Append(stream, id)
  /\ UNCHANGED <<group, cons, cache, staging, hist, dedupVars, lockVars, writerVars, lifeVars, enrichVars, sweepVars>>

\* XGROUP CREATE stream group id MKSTREAM: "$" starts after the last message,
\* "0" at the beginning; an existing group is an error and is left as it is.
XGroupCreate(g, id) ==
  IF g.created THEN g
  ELSE [g EXCEPT !.created = TRUE,
                 !.last_delivered = IF id = "$" THEN Len(stream) ELSE 0]

\* XREADGROUP ... COUNT count STREAMS stream ">": the messages never delivered
\* to the group, oldest first.
NewMessages(g, count) ==
  LET last == IF Len(stream) < g.last_delivered + count
              THEN Len(stream) ELSE g.last_delivered + count
  IN [i \in 1..(last - g.last_delivered) |-> g.last_delivered + i]

\* The read messages become pending for the consumer.
XReadGroup(g, c, count) ==
  LET new == NewMessages(g, count)
  IN [g EXCEPT !.last_delivered = @ + Len(new),
               !.pel = [m \in Msgs |-> IF \E i \in 1..Len(new) : new[i] = m
                                       THEN c ELSE g.pel[m]]]

\* An XACK that leaves the message pending: what the consumer must not get.
XAckLost(g, m) == g

\* XACK stream group id: the message is no longer pending.
XAck(g, m) == [g EXCEPT !.pel[m] = 0]

\* The for loop of start takes its next message and calls the processor on
\* it, or is over and the while loop reads again.
NextMessage(k) ==
  IF k.msgs = <<>> THEN [k EXCEPT !.pc = "read", !.cur = 0]
  ELSE [k EXCEPT !.pc = "dedup", !.cur = Head(k.msgs), !.msgs = Tail(k.msgs)]

\* History: the processor is called on the next message, if there is one.
Invoked(h, k) ==
  IF k.msgs = <<>> THEN h ELSE [h EXCEPT !.invoked[Head(k.msgs)] = @ + 1]

\* start, lines 28-44: create the group; an error is logged and passed over.
ConsumerStart(c) ==
  /\ cons[c].pc = "init"
  /\ group' = XGroupCreate(group, cons[c].start_from)
  /\ cons' = [cons EXCEPT ![c].pc = "read"]
  /\ UNCHANGED <<stream, cache, staging, hist, dedupVars, lockVars, writerVars, lifeVars, enrichVars, sweepVars>>

\* start, lines 46-60: read; without messages sleep, else start on the first.
ConsumerRead(c) ==
  LET new == NewMessages(group, ReadCount)
      k == [cons[c] EXCEPT !.msgs = new]
  IN /\ cons[c].pc = "read"
     /\ group.created
     /\ group' = XReadGroup(group, c, ReadCount)
     /\ cons' = [cons EXCEPT ![c] = IF new = <<>> THEN [k EXCEPT !.pc = "sleep"]
                                    ELSE NextMessage(k)]
     /\ hist' = Invoked(hist, k)
     /\ UNCHANGED <<stream, cache, staging, dedupVars, lockVars, writerVars, lifeVars, enrichVars, sweepVars>>

\* start, lines 56-57: asyncio.sleep(1) is over.
ConsumerWake(c) ==
  /\ cons[c].pc = "sleep"
  /\ cons' = [cons EXCEPT ![c].pc = "read"]
  /\ UNCHANGED <<stream, group, cache, staging, hist, dedupVars, lockVars, writerVars, lifeVars, enrichVars, sweepVars>>

\* The tweet id of the message a consumer is processing.
TweetId(c) == stream[cons[c].cur]
\* What the stream holds for a message whose fields have no id.
NoId == 0

\* The processor raised: start, lines 65-66, logs it and goes on.
Raised(c) ==
  /\ hist' = [Invoked(hist, cons[c]) EXCEPT !.raised = @ \cup {<<c, cons[c].cur>>}]
  /\ cons' = [cons EXCEPT ![c] = NextMessage(cons[c])]

\* process_tweet, line 69, calls is_duplicate: its steps are the deduplicator's.
ProcessDedupExists(c) ==
  /\ cons[c].pc = "dedup"
  /\ TweetId(c) \in Ids
  /\ IsDuplicateExists(c, TweetId(c))

\* process_tweet, lines 67-69, on fields without id: fields.get('id') is None,
\* and bf().exists(bloom_key, None) raises in the Redis client, which encodes
\* no None.  The processor raises (as store would, at storage.py line 40).
ProcessPoison(c) ==
  /\ cons[c].pc = "dedup"
  /\ TweetId(c) = NoId
  /\ dedup[c].pc = "idle"
  /\ Raised(c)
  /\ UNCHANGED <<stream, group, cache, staging, dedupVars, lockVars, writerVars, lifeVars, enrichVars, sweepVars>>

ProcessDedupNovel(c) ==
  /\ cons[c].pc = "dedup"
  /\ IsDuplicateNovel(c)

ProcessDedupConfirm(c) ==
  /\ cons[c].pc = "dedup"
  /\ IsDuplicateConfirm(c)

\* process_tweet, lines 69-71: a duplicate ends the processor; an exception of
\* is_duplicate leaves it; otherwise the tweet goes on to the enricher.
ProcessDedupResult(c) ==
  /\ cons[c].pc = "dedup"
  /\ dedup[c].pc = "done"
  /\ dedup' = [dedup EXCEPT ![c] = IdleCall]
  /\ CASE dedup[c].result = "True" ->
            /\ cons' = [cons EXCEPT ![c].pc = "ack"]
            /\ hist' = [hist EXCEPT !.completed = @ \cup {<<c, cons[c].cur>>}]
       [] dedup[c].result = "False" ->
            /\ cons' = [cons EXCEPT ![c].pc = "enrich"]
            /\ UNCHANGED hist
       [] OTHER -> Raised(c)
  /\ UNCHANGED <<kv, bloom_key, falseDone, reconciled, stream, group, cache, staging,
                 lockVars, writerVars, lifeVars, enrichVars, sweepVars>>

\* process_tweet, line 74: enrich returns the enriched tweet or raises.
ProcessEnrich(c, ok) ==
  /\ cons[c].pc = "enrich"
  /\ IF ok THEN cons' = [cons EXCEPT ![c].pc = "stage"] /\ UNCHANGED hist
     ELSE Raised(c)
  /\ UNCHANGED <<stream, group, cache, staging, dedupVars, lockVars, writerVars, lifeVars, enrichVars, sweepVars>>

\* The rows of the staging file called name; none when there is no such file.
FileRows(files, name) ==
  IF \E i \in 1..Len(files) : files[i].name = name
  THEN files[CHOOSE i \in 1..Len(files) : files[i].name = name].rows
  ELSE <<>>

\* pq.write_table(table, filepath), lines 91-96: the file is created, or an
\* existing file of that name is replaced.
WriteFile(files, name, rows) ==
  IF \E i \in 1..Len(files) : files[i].name = name
  THEN [i \in 1..Len(files) |->
          IF files[i].name = name THEN [name |-> name, rows |-> rows] ELSE files[i]]
  ELSE Append(files, [name |-> name, rows |-> rows])

\* flush_staging_buffer that forgets line 102: the buffer is not cleared.
FlushStagingBufferKeeps(s, file_ok) ==
  IF s.buffer = <<>> THEN [s EXCEPT !.raised = FALSE]
  ELSE IF ~file_ok THEN [s EXCEPT !.raised = TRUE]
  ELSE [s EXCEPT !.files = WriteFile(@, s.now, s.buffer),
                 !.stats.staged_tweets = @ + Len(s.buffer),
                 !.stats.flushes = @ + 1,
                 !.raised = FALSE]

\* flush_staging_buffer that clears the buffer before it writes the file.
FlushStagingBufferClearsFirst(s, file_ok) ==
  IF s.buffer = <<>> THEN [s EXCEPT !.raised = FALSE]
  ELSE IF ~file_ok THEN [s EXCEPT !.buffer = <<>>, !.raised = TRUE]
  ELSE [s EXCEPT !.buffer = <<>>,
                 !.files = WriteFile(@, s.now, s.buffer),
                 !.stats.staged_tweets = @ + Len(s.buffer),
                 !.stats.flushes = @ + 1,
                 !.raised = FALSE]

\* flush_staging_buffer, lines 80-106: nothing for an empty buffer; else the
\* buffer is written to tweets_<now to the second>.parquet and cleared, or the
\* write raises, the exception is logged and raised again, and the buffer and
\* the stats stay.
FlushStagingBuffer(s, file_ok) ==
  IF s.buffer = <<>> THEN [s EXCEPT !.raised = FALSE]
  ELSE IF ~file_ok THEN [s EXCEPT !.raised = TRUE]
  ELSE [s EXCEPT !.buffer = <<>>,
                 !.files = WriteFile(@, s.now, s.buffer),
                 !.stats.staged_tweets = @ + Len(s.buffer),
                 !.stats.flushes = @ + 1,
                 !.raised = FALSE]

\* Storage.append_to_staging and flush_staging_buffer, lines 74-106: append; at
\* buffer_limit write the buffer to a file and clear it, or fail and keep it.
\* store gathers with return_exceptions=True, so the failure goes nowhere.
AppendToStaging(s, tweet, file_ok) ==
  LET t == [s EXCEPT !.buffer = Append(@, tweet), !.closed = NotClosed,
                     !.raised = FALSE]
  IN IF Len(t.buffer) >= BufferLimit THEN FlushStagingBuffer(t, file_ok) ELSE t

\* Storage.store whose gather lets an exception through (return_exceptions
\* left out): a failed staging flush leaves the processor.
ProcessStageRaises(c, file_ok) ==
  /\ cons[c].pc = "stage"
  /\ staging' = AppendToStaging(staging, TweetId(c), file_ok)
  /\ IF file_ok \/ Len(staging.buffer) + 1 < BufferLimit
     THEN cons' = [cons EXCEPT ![c].pc = "cache"] /\ UNCHANGED hist
     ELSE Raised(c)
  /\ UNCHANGED <<stream, group, cache, dedupVars, lockVars, writerVars, lifeVars, enrichVars, sweepVars>>

\* Storage.store, lines 37-46, up to the await of the cache pipeline: the
\* staging leg runs while the cache leg waits for Redis.
ProcessStage(c, file_ok) ==
  /\ cons[c].pc = "stage"
  /\ staging' = AppendToStaging(staging, TweetId(c), file_ok)
  /\ cons' = [cons EXCEPT ![c].pc = "cache"]
  /\ UNCHANGED <<stream, group, cache, hist, dedupVars, lockVars, writerVars, lifeVars, enrichVars, sweepVars>>

\* _cache_in_redis without line 63: the list is pushed to and never trimmed.
CacheInRedisNoTrim(k, tweet_id) ==
  [hashes |-> k.hashes \cup {tweet_id},
   recent |-> <<tweet_id>> \o k.recent,
   cached_tweets |-> k.cached_tweets + 1]

\* The commands that _cache_in_redis queues, lines 59-69, executed: HSET
\* tweet:<id>, LPUSH and LTRIM of tweets:recent, INCR stats:cached_tweets.
CacheInRedis(k, tweet_id) ==
  LET pushed == <<tweet_id>> \o k.recent
  IN [hashes |-> k.hashes \cup {tweet_id},
      recent |-> IF Len(pushed) > RecentLimit THEN SubSeq(pushed, 1, RecentLimit)
                 ELSE pushed,
      cached_tweets |-> k.cached_tweets + 1]

\* Storage._cache_in_redis, lines 48-72: pipe.execute() writes tweet:<id>, or
\* raises; store's gather keeps the exception as a result nobody reads.
ProcessCache(c, ok) ==
  /\ cons[c].pc = "cache"
  /\ cache' = IF ok THEN CacheInRedis(cache, TweetId(c)) ELSE cache
  /\ cons' = [cons EXCEPT ![c].pc = "add"]
  /\ UNCHANGED <<stream, group, staging, hist, dedupVars, lockVars, writerVars, lifeVars, enrichVars, sweepVars>>

\* process_tweet, lines 80-86: add_tweet, and the processor returns.
ProcessAddTweet(c) ==
  /\ cons[c].pc = "add"
  /\ add_tweet(PipelineWriter, TweetId(c))
  /\ cons' = [cons EXCEPT ![c].pc = "ack"]
  /\ hist' = [hist EXCEPT !.completed = @ \cup {<<c, cons[c].cur>>},
                          !.added = @ \cup {TweetId(c)}]
  /\ UNCHANGED <<next_rec, db, stream, group, cache, staging, dedupVars, lockVars, lifeVars, enrichVars, sweepVars>>

\* start, line 64: the processor returned, xack; then the next message.
ConsumerAck(c) ==
  /\ cons[c].pc = "ack"
  /\ group' = XAck(group, cons[c].cur)
  /\ hist' = [Invoked(hist, cons[c]) EXCEPT !.acked = @ \cup {<<c, cons[c].cur>>}]
  /\ cons' = [cons EXCEPT ![c] = NextMessage(cons[c])]
  /\ UNCHANGED <<stream, cache, staging, dedupVars, lockVars, writerVars, lifeVars, enrichVars, sweepVars>>

\* What one consumer task can do next.
ConsumerNext(c) ==
  \/ ConsumerStart(c)
  \/ ConsumerRead(c)
  \/ ConsumerWake(c)
  \/ ProcessDedupExists(c)
  \/ ProcessDedupNovel(c)
  \/ ProcessDedupConfirm(c)
  \/ ProcessDedupResult(c)
  \/ \E ok \in BOOLEAN : ProcessEnrich(c, ok)
  \/ \E file_ok \in BOOLEAN : ProcessStage(c, file_ok)
  \/ \E ok \in BOOLEAN : ProcessCache(c, ok)
  \/ ProcessAddTweet(c)
  \/ ConsumerAck(c)

NextPipeline ==
  \/ \E id \in Ids : XAdd(id)
  \/ \E c \in Workers : ConsumerStart(c)
  \/ \E c \in Workers : ConsumerRead(c)
  \/ \E c \in Workers : ConsumerWake(c)
  \/ \E c \in Workers : ProcessDedupExists(c)
  \/ \E c \in Workers : ProcessDedupNovel(c)
  \/ \E c \in Workers : ProcessDedupConfirm(c)
  \/ \E c \in Workers : ProcessDedupResult(c)
  \/ \E c \in Workers, ok \in BOOLEAN : ProcessEnrich(c, ok)
  \/ \E c \in Workers, file_ok \in BOOLEAN : ProcessStage(c, file_ok)
  \/ \E c \in Workers, ok \in BOOLEAN : ProcessCache(c, ok)
  \/ \E c \in Workers : ProcessAddTweet(c)
  \/ \E c \in Workers : ConsumerAck(c)

\* The consumers of a pipeline with num_workers workers, on a stream that also
\* gets messages without id.
NextPoison ==
  \/ \E id \in Ids \cup {NoId} : XAdd(id)
  \/ \E c \in PipelineWorkers : ConsumerStart(c)
  \/ \E c \in PipelineWorkers : ConsumerRead(c)
  \/ \E c \in PipelineWorkers : ConsumerWake(c)
  \/ \E c \in PipelineWorkers : ProcessPoison(c)
  \/ \E c \in PipelineWorkers : ProcessDedupExists(c)
  \/ \E c \in PipelineWorkers : ProcessDedupNovel(c)
  \/ \E c \in PipelineWorkers : ProcessDedupConfirm(c)
  \/ \E c \in PipelineWorkers : ProcessDedupResult(c)
  \/ \E c \in PipelineWorkers, ok \in BOOLEAN : ProcessEnrich(c, ok)
  \/ \E c \in PipelineWorkers, file_ok \in BOOLEAN : ProcessStage(c, file_ok)
  \/ \E c \in PipelineWorkers, ok \in BOOLEAN : ProcessCache(c, ok)
  \/ \E c \in PipelineWorkers : ProcessAddTweet(c)
  \/ \E c \in PipelineWorkers : ConsumerAck(c)

\* start, lines 33-44, with the stream store out of reach: xgroup_create
\* raises, the error is logged and passed over, and the loop begins.
ConsumerStartRaises(c) ==
  /\ cons[c].pc = "init"
  /\ cons' = [cons EXCEPT ![c].pc = "read"]
  /\ UNCHANGED <<stream, group, cache, staging, hist, dedupVars, lockVars, writerVars, lifeVars, enrichVars, sweepVars>>

\* start, lines 46-53 and 70-71: xreadgroup raises (the store is out of reach,
\* or the group was never created).  The call is outside the try of lines
\* 61-66, so the handler around the loop logs the error and start returns.
ConsumerReadRaises(c) ==
  /\ cons[c].pc = "read"
  /\ cons' = [cons EXCEPT ![c].pc = "error", ![c].msgs = <<>>, ![c].cur = 0]
  /\ UNCHANGED <<stream, group, cache, staging, hist, dedupVars, lockVars, writerVars, lifeVars, enrichVars, sweepVars>>

\* start, lines 64-66: xack raises; the per-message handler logs it and the
\* loop goes on with the next message, the message unacknowledged.
ConsumerAckRaises(c) ==
  /\ cons[c].pc = "ack"
  /\ hist' = Invoked(hist, cons[c])
  /\ cons' = [cons EXCEPT ![c] = NextMessage(cons[c])]
  /\ UNCHANGED <<stream, group, cache, staging, dedupVars, lockVars, writerVars, lifeVars, enrichVars, sweepVars>>

\* The consumers of a pipeline over a stream store that can be out of reach
\* for a call.
NextConsumerOutage ==
  \/ NextPoison
  \/ \E c \in PipelineWorkers : ConsumerStartRaises(c)
  \/ \E c \in PipelineWorkers : ConsumerReadRaises(c)
  \/ \E c \in PipelineWorkers : ConsumerAckRaises(c)

(***************************************************************************)
(* Storage (ingestion/storage.py) on its own: callers append, flush and    *)
(* close while the clock goes on.                                          *)
(***************************************************************************)
\* append_to_staging, lines 74-78, called directly; a failed flush raises.
StorageAppend(tweet, file_ok) ==
  /\ Len(staging.buffer) < MaxBuffer
  /\ staging.stats.staged_tweets + Len(staging.buffer) < MaxStaged
  /\ staging' = AppendToStaging(staging, tweet, file_ok)
  /\ UNCHANGED <<stream, group, cons, cache, hist, dedupVars, lockVars, writerVars, lifeVars, enrichVars, sweepVars>>

\* flush, lines 108-111: flush_staging_buffer when the buffer is not empty.
StorageFlush(file_ok) ==
  /\ staging' = [FlushStagingBuffer(staging, file_ok) EXCEPT !.closed = NotClosed]
  /\ UNCHANGED <<stream, group, cons, cache, hist, dedupVars, lockVars, writerVars, lifeVars, enrichVars, sweepVars>>

\* close, lines 191-195: flush, then the final stats are logged.  It returns
\* unless the flush raised.
StorageClose(file_ok) ==
  LET raised == staging.buffer # <<>> /\ ~file_ok
  IN /\ staging' = [FlushStagingBuffer(staging, file_ok) EXCEPT
                      !.closed = IF raised THEN NotClosed
                                 ELSE [returned |-> TRUE, had |-> staging.buffer]]
     /\ UNCHANGED <<stream, group, cons, cache, hist, dedupVars, lockVars, writerVars, lifeVars, enrichVars, sweepVars>>

\* datetime.now(), line 85: the next second has begun.
ClockSecond ==
  /\ staging.now < MaxSeconds
  /\ staging' = [staging EXCEPT !.now = @ + 1]
  /\ UNCHANGED <<stream, group, cons, cache, hist, dedupVars, lockVars, writerVars, lifeVars, enrichVars, sweepVars>>

NextStorage ==
  \/ \E tweet \in Ids, file_ok \in BOOLEAN : StorageAppend(tweet, file_ok)
  \/ \E file_ok \in BOOLEAN : StorageFlush(file_ok)
  \/ \E file_ok \in BOOLEAN : StorageClose(file_ok)
  \/ ClockSecond

(***************************************************************************)
(* The same Storage, with append_to_staging and flush taken apart into the *)
(* steps a task makes between taking buffer_lock and giving it back.       *)
(***************************************************************************)
\* append_to_staging without lines 77-78: the limit is never looked at.
StagingAppendEnterNoFlush(k, tweet) ==
  /\ staging.buffer_lock.holder = 0
  /\ Len(staging.buffer) < MaxBuffer
  /\ staging.stats.staged_tweets + Len(staging.buffer) < MaxStaged
  /\ staging' = [staging EXCEPT
                   !.buffer = Append(@, tweet), !.closed = NotClosed, !.raised = FALSE,
                   !.buffer_lock = [holder |-> k, name |-> 0, pc |-> "exit"]]
  /\ UNCHANGED <<stream, group, cons, cache, hist, dedupVars, lockVars, writerVars, lifeVars, enrichVars, sweepVars>>

\* append_to_staging, lines 75-77: the task has buffer_lock (async with), has
\* appended, and goes on to flush_staging_buffer when the limit is reached.
StagingAppendEnter(k, tweet) ==
  /\ staging.buffer_lock.holder = 0
  /\ Len(staging.buffer) < MaxBuffer
  /\ staging.stats.staged_tweets + Len(staging.buffer) < MaxStaged
  /\ staging' = [staging EXCEPT
                   !.buffer = Append(@, tweet), !.closed = NotClosed, !.raised = FALSE,
                   !.buffer_lock = [holder |-> k, name |-> 0,
                                    pc |-> IF Len(staging.buffer) + 1 >= BufferLimit
                                           THEN "flush" ELSE "exit"]]
  /\ UNCHANGED <<stream, group, cons, cache, hist, dedupVars, lockVars, writerVars, lifeVars, enrichVars, sweepVars>>

\* flush, lines 109-110: the task has buffer_lock and goes on to
\* flush_staging_buffer when the buffer is not empty.
StagingFlushEnter(k) ==
  /\ staging.buffer_lock.holder = 0
  /\ staging' = [staging EXCEPT
                   !.raised = FALSE,
                   !.buffer_lock = [holder |-> k, name |-> 0,
                                    pc |-> IF staging.buffer # <<>>
                                           THEN "flush" ELSE "exit"]]
  /\ UNCHANGED <<stream, group, cons, cache, hist, dedupVars, lockVars, writerVars, lifeVars, enrichVars, sweepVars>>

\* flush_staging_buffer, lines 81-92: the file is named after the second, and
\* pq.write_table has begun to write it.
StagingWriteBegin ==
  /\ staging.buffer_lock.pc = "flush"
  /\ staging' = [staging EXCEPT !.buffer_lock.pc = "writing",
                                !.buffer_lock.name = staging.now]
  /\ UNCHANGED <<stream, group, cons, cache, hist, dedupVars, lockVars, writerVars, lifeVars, enrichVars, sweepVars>>

\* flush_staging_buffer, lines 92-106: pq.write_table is over; the stats are
\* counted and the buffer cleared, or the exception is logged and raised.
StagingWriteEnd(file_ok) ==
  LET named == [staging EXCEPT !.now = staging.buffer_lock.name]
  IN /\ staging.buffer_lock.pc = "writing"
     /\ staging' = [FlushStagingBuffer(named, file_ok) EXCEPT
                      !.now = staging.now, !.buffer_lock.pc = "exit"]
     /\ UNCHANGED <<stream, group, cons, cache, hist, dedupVars, lockVars, writerVars, lifeVars, enrichVars, sweepVars>>

\* The async with block is left, by its end or by the exception: buffer_lock
\* is given back.
StagingExit ==
  /\ staging.buffer_lock.pc = "exit"
  /\ staging' = [staging EXCEPT !.buffer_lock = FreeBufferLock]
  /\ UNCHANGED <<stream, group, cons, cache, hist, dedupVars, lockVars, writerVars, lifeVars, enrichVars, sweepVars>>

NextStaging ==
  \/ \E k \in Workers, tweet \in Ids : StagingAppendEnter(k, tweet)
  \/ \E k \in Workers : StagingFlushEnter(k)
  \/ StagingWriteBegin
  \/ \E file_ok \in BOOLEAN : StagingWriteEnd(file_ok)
  \/ StagingExit
  \/ ClockSecond

(***************************************************************************)
(* IngestionPipeline (ingestion/pipeline.py): the object that start() and  *)
(* stop() turn on and off.  Its BatchWriter is PipelineWriter.             *)
(***************************************************************************)
\* How often start() goes through in a run of the model.
MaxStarts == 2

\* __init__, lines 33-34: is_running = False, tasks = [].
InitLife ==
  pipe = [is_running |-> FALSE, pc |-> "idle", loop |-> "none",
          starts |-> 0, stops |-> 0]

\* Before start() there is no consumer task.
NoTasks ==
  /\ stream = <<>>
  /\ group = [created |-> FALSE, last_delivered |-> 0, pel |-> [m \in Msgs |-> 0]]
  /\ cons = [c \in Workers |-> [pc |-> "none", start_from |-> "$",
                                 msgs |-> <<>>, cur |-> 0]]
  /\ cache = NewCache
  /\ staging = NewStorage
  /\ hist = [invoked |-> [m \in Msgs |-> 0], raised |-> {}, completed |-> {},
             acked |-> {}, added |-> {}]

\* start, lines 88-126: nothing when is_running; else is_running = True, a new
\* BatchWriter whose run_forever becomes a task, and a task per consumer.  (The
\* model starts again only when no flush of the old BatchWriter is in flight.)
PipelineStart ==
  /\ ~pipe.is_running
  /\ pipe.pc = "idle"
  /\ pipe.starts < MaxStarts
  /\ \A t \in FlushSlots : flush[PipelineWriter][t].pc = "idle"
  /\ pipe' = [pipe EXCEPT !.is_running = TRUE, !.loop = "running", !.starts = @ + 1]
  /\ writer' = [writer EXCEPT ![PipelineWriter] =
                  [@ EXCEPT !.is_running = TRUE, !.batch = <<>>, !.since_flush = 0,
                            !.total_processed = 0, !.total_failed = 0,
                            !.total_batches_written = 0]]
  /\ cons' = [c \in Workers |->
                IF c \in PipelineWorkers
                THEN [cons[c] EXCEPT !.pc = "init", !.msgs = <<>>, !.cur = 0]
                ELSE cons[c]]
  /\ UNCHANGED <<flush, next_rec, db, stream, group, cache, staging, hist,
                 dedupVars, lockVars, enrichVars, sweepVars>>

\* stop, lines 128-137: nothing unless is_running; else is_running = False and
\* every task is cancelled.  The tasks are suspended at an await while stop
\* runs.  A consumer gets CancelledError there (consumer.py, line 68) and
\* returns.  A flush that run_forever awaits gets it too: its copy is dropped
\* and its finally releases the lock.
StopBegin ==
  /\ pipe.is_running
  /\ pipe.pc = "idle"
  /\ \A c \in PipelineWorkers : cons[c].pc \in {"init", "sleep", "dedup", "cache", "add"}
  /\ flush[PipelineWriter][0].pc \in {"idle", "acquire", "acquired", "write", "written",
                                      "sleep", "extend"}
  /\ pipe' = [pipe EXCEPT !.is_running = FALSE, !.pc = "gather", !.loop = "cancelled"]
  /\ cons' = [c \in Workers |->
                IF c \in PipelineWorkers THEN [cons[c] EXCEPT !.pc = "stopped"]
                ELSE cons[c]]
  /\ dedup' = [c \in Callers |-> IF c \in PipelineWorkers THEN IdleCall ELSE dedup[c]]
  /\ flush' = IF flush[PipelineWriter][0].pc = "idle" THEN flush
              ELSE [flush EXCEPT ![PipelineWriter][0].pc = "release",
                                 ![PipelineWriter][0].ret = "cancelled"]
  /\ UNCHANGED <<writer, next_rec, db, stream, group, cache, staging, hist,
                 kv, bloom_key, falseDone, reconciled, lockVars, enrichVars, sweepVars>>

\* batch_writer.run_forever, lines 96-102: CancelledError; a final flush when
\* the batch is not empty, then break.
LoopCancelled ==
  /\ pipe.loop = "cancelled"
  /\ flush[PipelineWriter][0].pc = "idle"
  /\ IF writer[PipelineWriter].batch # <<>>
     THEN /\ FlushCopy(PipelineWriter, 0)
          /\ pipe' = [pipe EXCEPT !.loop = "final"]
     ELSE /\ pipe' = [pipe EXCEPT !.loop = "done"]
          /\ UNCHANGED <<writer, flush, enrichVars, sweepVars>>
  /\ UNCHANGED <<next_rec, db, dedupVars, lockVars, pipelineVars, enrichVars, sweepVars>>

\* run_forever, lines 100-102: the final flush has returned; break.
LoopFinal ==
  /\ pipe.loop = "final"
  /\ flush[PipelineWriter][0].pc = "idle"
  /\ pipe' = [pipe EXCEPT !.loop = "done"]
  /\ UNCHANGED <<dedupVars, lockVars, writerVars, pipelineVars, enrichVars, sweepVars>>

\* stop, lines 139-146: the gather is over; connector.close(),
\* batch_writer.stop(), and batch_writer.flush() is awaited.
StopGather ==
  /\ pipe.pc = "gather"
  /\ pipe.loop = "done"
  /\ \A c \in PipelineWorkers : cons[c].pc = "stopped"
  /\ IF writer[PipelineWriter].batch = <<>>
     THEN /\ flush' = [flush EXCEPT ![PipelineWriter][0] =
                         [IdleFlush EXCEPT !.pc = "done", !.ret = "True"]]
          /\ writer' = [writer EXCEPT ![PipelineWriter].is_running = FALSE]
     ELSE /\ FlushesOf(Writers) < MaxFlushes
          /\ flush' = [flush EXCEPT ![PipelineWriter][0] =
                         [IdleFlush EXCEPT !.pc = "acquire",
                                           !.tweets_to_save = writer[PipelineWriter].batch]]
          /\ writer' = [writer EXCEPT ![PipelineWriter].is_running = FALSE,
                                      ![PipelineWriter].batch = <<>>,
                                      ![PipelineWriter].flushes = @ + 1]
  /\ pipe' = [pipe EXCEPT !.pc = "flush"]
  /\ UNCHANGED <<next_rec, db, dedupVars, lockVars, pipelineVars, enrichVars, sweepVars>>

\* stop, lines 148-157: the flush has returned, whatever it returned; the import
\* of the lock manager fails and is logged; stop returns.
StopReturn ==
  /\ pipe.pc = "flush"
  /\ flush[PipelineWriter][0].pc = "idle"
  /\ pipe' = [pipe EXCEPT !.pc = "idle", !.stops = @ + 1]
  /\ UNCHANGED <<dedupVars, lockVars, writerVars, pipelineVars, enrichVars, sweepVars>>

\* run_forever of the pipeline's BatchWriter, while its task is not cancelled.
LoopFlush ==
  /\ pipe.loop = "running"
  /\ RunForever(PipelineWriter)

\* A stop() call has returned and start() has not been called since.
StopReturned == pipe.stops > 0 /\ pipe.pc = "idle" /\ ~pipe.is_running

\* The pipeline with a healthy enricher, cache, staging directory and
\* relational store, in a run shorter than the lock's timeout.  The filter of
\* NumIds bits lets two ids through (the third is reported present, and
\* is_duplicate raises), so the one BatchWriter never has two copies in flight
\* and no flush of it finds the lock taken.
NextLifecycle ==
  \/ \E id \in Ids : XAdd(id)
  \/ PipelineStart
  \/ StopBegin
  \/ LoopCancelled
  \/ LoopFinal
  \/ StopGather
  \/ StopReturn
  \/ LoopFlush
  \/ \E c \in PipelineWorkers : ConsumerStart(c)
  \/ \E c \in PipelineWorkers : ConsumerRead(c)
  \/ \E c \in PipelineWorkers : ConsumerWake(c)
  \/ \E c \in PipelineWorkers : ProcessDedupExists(c)
  \/ \E c \in PipelineWorkers : ProcessDedupNovel(c)
  \/ \E c \in PipelineWorkers : ProcessDedupConfirm(c)
  \/ \E c \in PipelineWorkers : ProcessDedupResult(c)
  \/ \E c \in PipelineWorkers : ProcessEnrich(c, TRUE)
  \/ \E c \in PipelineWorkers : ProcessStage(c, TRUE)
  \/ \E c \in PipelineWorkers : ProcessCache(c, TRUE)
  \/ \E c \in PipelineWorkers : ProcessAddTweet(c)
  \/ \E c \in PipelineWorkers : ConsumerAck(c)
  \/ \E t \in FlushSlots : FlushStart(PipelineWriter, t)
  \/ \E t \in FlushSlots : FlushAcquire(PipelineWriter, t)
  \/ \E t \in FlushSlots : FlushLocked(PipelineWriter, t)
  \/ \E t \in FlushSlots : WriteBatchToDb(PipelineWriter, t, TRUE)
  \/ \E t \in FlushSlots : FlushSucceeded(PipelineWriter, t)
  \/ \E t \in FlushSlots : FlushRelease(PipelineWriter, t)
  \/ \E t \in FlushSlots : FlushReturn(PipelineWriter, t)

\* The same pipeline against a relational store whose upserts can raise, so
\* that stop() can meet a flush between two attempts.
NextLifecycleRetry ==
  \/ NextLifecycle
  \/ \E t \in FlushSlots : WriteBatchToDb(PipelineWriter, t, FALSE)
  \/ \E t \in FlushSlots : FlushAttemptFailed(PipelineWriter, t)
  \/ \E t \in FlushSlots : FlushBackoff(PipelineWriter, t)
  \/ \E t \in FlushSlots : FlushExtend(PipelineWriter, t)

(***************************************************************************)
(* TweetEnricher.enrich, in its two backends: the transformer model        *)
(* (ingestion/enrichment.py) and the VADER lexicon                         *)
(* (ingestion/enrichment_lite.py).  A call is given a text, of which the   *)
(* model keeps the length after _clean_text, and meets a language detector *)
(* and a sentiment backend that answer or raise.                           *)
(***************************************************************************)
\* The length that the cleaned text must exceed for the backend to be asked.
NeutralLength == 10
\* Lengths of cleaned texts around that length.
TextSpread == 1
TextLengths == (NeutralLength - TextSpread)..(NeutralLength + TextSpread)
Backends == {"transformer", "lexical"}
\* langdetect.detect returns a language code or raises.
DetectorAnswers == {"en", "fr", "raises"}
\* The sentiment backend returns a label with a score, or raises.
BackendAnswers == {"positive", "negative", "neutral", "raises"}
\* Confidences in tenths: 0.5 of the neutral rule, and the backend's score.
HalfConfidence == 5
BackendConfidence == 9

IdleEnrich ==
  [pc |-> "idle", backend |-> "none", length |-> 0, detector |-> "none",
   classifier |-> "none", language |-> "none", sentiment |-> "none",
   confidence |-> 0, consulted |-> FALSE, raised |-> FALSE]

InitEnrich == enr = IdleEnrich

\* enrich is called, lines 23-25 of both files: the text is cleaned.
EnrichCall(backend, length, detector, classifier) ==
  /\ enr.pc = "idle"
  /\ enr' = [IdleEnrich EXCEPT !.pc = "detect", !.backend = backend, !.length = length,
                               !.detector = detector, !.classifier = classifier]
  /\ UNCHANGED <<dedupVars, lockVars, writerVars, pipelineVars, lifeVars, sweepVars>>

\* enrichment.py lines 27-30, enrichment_lite.py lines 27-30: the language is
\* what langdetect.detect returns, "unknown" when it raises.
EnrichDetect ==
  /\ enr.pc = "detect"
  /\ enr' = [enr EXCEPT !.pc = "sentiment",
                        !.language = IF enr.detector = "raises" THEN "unknown"
                                     ELSE enr.detector]
  /\ UNCHANGED <<dedupVars, lockVars, writerVars, pipelineVars, lifeVars, sweepVars>>

\* Whether the call asks its sentiment backend: enrichment.py line 32,
\* language == "en" and len(cleaned_text) > 10; enrichment_lite.py line 33,
\* len(cleaned_text) > 10.
Consults(e) ==
  IF e.backend = "transformer"
  THEN e.language = "en" /\ e.length > NeutralLength
  ELSE e.length > NeutralLength

\* enrichment.py lines 32-35, enrichment_lite.py lines 33-38: the backend's
\* label and score, or neutral with 0.5; an exception of the backend is not
\* caught and leaves enrich.
EnrichSentiment ==
  /\ enr.pc = "sentiment"
  /\ enr' = IF ~Consults(enr)
            THEN [enr EXCEPT !.pc = "done", !.sentiment = "neutral",
                             !.confidence = HalfConfidence]
            ELSE IF enr.classifier = "raises"
            THEN [enr EXCEPT !.pc = "done", !.consulted = TRUE, !.raised = TRUE]
            ELSE [enr EXCEPT !.pc = "done", !.consulted = TRUE,
                             !.sentiment = enr.classifier,
                             !.confidence = BackendConfidence]
  /\ UNCHANGED <<dedupVars, lockVars, writerVars, pipelineVars, lifeVars, sweepVars>>

\* The caller has the enriched tweet, or the exception.
EnrichReturn ==
  /\ enr.pc = "done"
  /\ enr' = IdleEnrich
  /\ UNCHANGED <<dedupVars, lockVars, writerVars, pipelineVars, lifeVars, sweepVars>>

NextEnrich ==
  \/ \E backend \in Backends, length \in TextLengths, detector \in DetectorAnswers,
        classifier \in BackendAnswers : EnrichCall(backend, length, detector, classifier)
  \/ EnrichDetect
  \/ EnrichSentiment
  \/ EnrichReturn

(***************************************************************************)
(* DistributedLockManager.cleanup_stale_locks (distributed/locking.py)     *)
(* next to lock objects that acquire and release, on a store in which      *)
(* somebody else can leave a key without expiration.                       *)
(***************************************************************************)
\* cleanup_stale_locks calls running at the same time.
NumSweeps == 2
Sweeps == 1..NumSweeps
\* The value of a key that no RedisLock has set.
ForeignValue == 2 * (NumLocks + NumWriters * (NumFlushTasks + 1)) + 1

IdleSweep == [pc |-> "idle", keys |-> {}, key |-> <<>>, ttl |-> 0, deleted |-> FALSE]
InitSweep == sweep = [s \in Sweeps |-> IdleSweep]

\* PTTL key.
PTtl(store, key) ==
  IF store[key].value = 0 THEN NoSuchKey ELSE store[key].pttl

\* Somebody sets a lock key by hand, without expiration.
ForeignSet(key) ==
  /\ locks[key].value = 0
  /\ locks' = [locks EXCEPT ![key] = [value |-> ForeignValue, pttl |-> NoExpiry]]
  /\ UNCHANGED <<lock_obj, lock_ret, grants, dedupVars, writerVars, pipelineVars, lifeVars, enrichVars, sweepVars>>

\* cleanup_stale_locks, lines 168-169: KEYS distributed_lock:*.
SweepKeys(s) ==
  /\ sweep[s].pc = "idle"
  /\ sweep' = [sweep EXCEPT ![s] = [IdleSweep EXCEPT
                  !.pc = "next", !.keys = {k \in LockKeys : locks[k].value # 0}]]
  /\ UNCHANGED <<dedupVars, lockVars, writerVars, pipelineVars, lifeVars, enrichVars>>

\* cleanup_stale_locks, lines 171-173: the next key of the list, and its PTTL.
SweepPttl(s) ==
  /\ sweep[s].pc = "next"
  /\ sweep[s].keys # {}
  /\ \E key \in sweep[s].keys :
       sweep' = [sweep EXCEPT ![s].pc = "decide", ![s].key = key,
                              ![s].ttl = PTtl(locks, key),
                              ![s].keys = @ \ {key}, ![s].deleted = FALSE]
  /\ UNCHANGED <<dedupVars, lockVars, writerVars, pipelineVars, lifeVars, enrichVars>>

\* cleanup_stale_locks, lines 174-178: a key whose PTTL was read as -1 is
\* deleted with DEL; any other key is passed over.
SweepDecide(s) ==
  /\ sweep[s].pc = "decide"
  /\ IF sweep[s].ttl = NoExpiry
     THEN /\ locks' = [locks EXCEPT ![sweep[s].key] = NoLock]
          /\ grants' = GrantsAfter(locks', grants)
          /\ sweep' = [sweep EXCEPT ![s].pc = "next", ![s].deleted = TRUE]
     ELSE /\ sweep' = [sweep EXCEPT ![s].pc = "next"]
          /\ UNCHANGED <<locks, grants>>
  /\ UNCHANGED <<lock_obj, lock_ret, dedupVars, writerVars, pipelineVars, lifeVars, enrichVars>>

\* cleanup_stale_locks returns when the list is used up.
SweepReturn(s) ==
  /\ sweep[s].pc = "next"
  /\ sweep[s].keys = {}
  /\ sweep' = [sweep EXCEPT ![s] = IdleSweep]
  /\ UNCHANGED <<dedupVars, lockVars, writerVars, pipelineVars, lifeVars, enrichVars>>

NextSweep ==
  \/ \E l \in LockObjs : Acquire(l)
  \/ \E l \in LockObjs : Release(l)
  \/ PassTime
  \/ \E key \in LockKeys : ForeignSet(key)
  \/ \E s \in Sweeps : SweepKeys(s)
  \/ \E s \in Sweeps : SweepPttl(s)
  \/ \E s \in Sweeps : SweepDecide(s)
  \/ \E s \in Sweeps : SweepReturn(s)

(***************************************************************************)
(* The specifications.                                                     *)
(***************************************************************************)
\* A specification runs one subsystem.  The objects of the subsystems it does
\* not run stay as constructed, with one configuration: the first batch size,
\* and STREAM_START_FROM at its default.
DefaultKey == LockKey(CHOOSE b \in BatchSizes : \A a \in BatchSizes : b <= a)
QuietLock == InitLock /\ \A l \in LockObjs : lock_obj[l].lock_key = DefaultKey
QuietWriter == InitWriter /\ \A w \in Writers : LockKey(writer[w].batch_size) = DefaultKey
QuietPipeline == InitPipeline /\ \A c \in Workers : cons[c].start_from = "$"

DedupInit == InitDedup /\ QuietLock /\ QuietWriter /\ QuietPipeline /\ InitLife /\ InitEnrich /\ InitSweep
SpecDedup == DedupInit /\ [][NextDedup]_vars

LockInit == InitLock /\ InitDedup /\ QuietWriter /\ QuietPipeline /\ InitLife /\ InitEnrich /\ InitSweep
SpecLock == LockInit /\ [][NextLock]_vars
SpecWith == LockInit /\ [][NextWith]_vars
SpecSweep == LockInit /\ [][NextSweep]_vars
SpecLockOutage == LockInit /\ [][NextLockOutage]_vars

FlushInit == InitWriter /\ InitDedup /\ QuietLock /\ QuietPipeline /\ InitLife /\ InitEnrich /\ InitSweep
SpecFlush == FlushInit /\ [][NextFlush]_vars

\* The event loop runs every flush call that can go on, run_forever wakes up
\* from its sleep and checks again, Redis and the database answer, and time
\* passes.
SpecFlushHealthy == FlushInit /\ [][NextFlushHealthy]_vars
\* BatchWriter(..., max_retries=n): the writers of the retry schedule are built
\* with the default of 3 or with one retry more.
InitRetryWriter ==
  /\ \E n \in {MaxRetries, MaxRetries + 1} :
        writer = [w \in Writers |->
                    [batch_size |-> DefaultKey[2], max_retries |-> n,
                     max_wait_seconds |-> MaxWaitSeconds, is_running |-> TRUE,
                     batch |-> <<>>, since_flush |-> 0, total_processed |-> 0,
                     total_failed |-> 0, total_batches_written |-> 0, flushes |-> 0]]
  /\ flush = [w \in Writers |-> [t \in FlushSlots |-> IdleFlush]]
  /\ next_rec = 1
  /\ db = [r \in Records |-> 0]
RetryInit == InitRetryWriter /\ InitDedup /\ QuietLock /\ QuietPipeline /\ InitLife /\ InitEnrich /\ InitSweep
SpecRetry == RetryInit /\ [][NextRetry]_vars
SpecFlushOutage == FlushInit /\ [][NextFlushOutage]_vars

FairSpecFlushHealthy ==
  /\ FlushInit
  /\ [][NextFlushHealthy]_vars
  /\ WF_vars(Tick)
  /\ \A w \in Writers : WF_vars(RunForever(w))
  /\ \A w \in Writers, t \in FlushSlots : WF_vars(FlushNextHealthy(w, t))

StorageInit == InitPipeline /\ InitDedup /\ QuietLock /\ QuietWriter /\ InitLife /\ InitEnrich /\ InitSweep
SpecStorage == StorageInit /\ [][NextStorage]_vars
SpecStaging == StorageInit /\ [][NextStaging]_vars

LifecycleInit == InitLife /\ NoTasks /\ InitDedup /\ QuietLock /\ QuietWriter /\ InitEnrich /\ InitSweep
SpecLifecycle == LifecycleInit /\ [][NextLifecycle]_vars
SpecLifecycleRetry == LifecycleInit /\ [][NextLifecycleRetry]_vars

EnrichInit == InitEnrich /\ InitDedup /\ QuietLock /\ QuietWriter /\ QuietPipeline /\ InitLife /\ InitSweep
SpecEnrich == EnrichInit /\ [][NextEnrich]_vars

PipelineInit == InitPipeline /\ InitDedup /\ QuietLock /\ QuietWriter /\ InitLife /\ InitEnrich /\ InitSweep
SpecPipeline == PipelineInit /\ [][NextPipeline]_vars
SpecPoison == PipelineInit /\ [][NextPoison]_vars
SpecConsumerOutage == PipelineInit /\ [][NextConsumerOutage]_vars

\* Every consumer task that can take a step is scheduled again: the event loop
\* runs each ready task, and sleeps and Redis calls return.
FairSpecPipeline == SpecPipeline /\ \A c \in Workers : WF_vars(ConsumerNext(c))

(***************************************************************************)
(* Deduplicator claims, checked under SpecDedup.                           *)
(***************************************************************************)
Finished(c) == dedup[c].pc = "done"

\* C1: once an is_duplicate(id) call has completed returning False, every call
\* with that id that starts afterwards returns True.
C1_NoFalseNegative ==
  \A c \in Callers :
    (Finished(c) /\ dedup[c].afterFalse) => dedup[c].result = "True"

\* C2: a call that starts while the filter reports the id and dedup:seen does not
\* hold it (and that no other call on the id overlaps) returns False and leaves
\* the id in dedup:seen; every call on that id that starts after it returns True.
C2_FalsePositiveReconciled ==
  \A c \in Callers :
    /\ (Finished(c) /\ dedup[c].fpAtStart /\ dedup[c].alone)
          => (dedup[c].result = "False" /\ dedup[c].tweet_id \in Seen)
    /\ (Finished(c) /\ dedup[c].afterReconciled) => dedup[c].result = "True"

\* C3: whenever the filter reports the id, the duplicate status is looked up in
\* the set stored under dedup:seen and never under the filter's key.
C3_LookupInSeen ==
  \A c \in Callers :
    dedup[c].lookupKey # "none" =>
      (dedup[c].lookupKey = "dedup:seen" /\ dedup[c].lookupKey \notin FilterKeys)

\* C4: a call that returns False on the novel path has added the id to the filter
\* and to dedup:seen; after any completed call the id is in dedup:seen.
C4_CompletedCallInSeen ==
  \A c \in Callers :
    (Finished(c) /\ dedup[c].result \in {"True", "False"}) =>
      (dedup[c].tweet_id \in Seen /\ BfExists(kv, "dedup:bloom", dedup[c].tweet_id))

(***************************************************************************)
(* RedisLock claims, checked under SpecLock.                               *)
(***************************************************************************)
\* The lock objects whose own value is the one stored under key k.
Owners(k) ==
  {l \in LockObjs : /\ lock_obj[l].lock_key = k
                    /\ lock_obj[l].lock_value # 0
                    /\ lock_obj[l].lock_value = locks[k].value}

\* C8: mutual exclusion.  Under every lock key at most one lock object's value is
\* stored, acquire returns True only when no value is stored under the key, and
\* the key is not granted twice without a release or an expiry in between.
C8_MutualExclusion ==
  /\ [](\A k \in LockKeys : Cardinality(Owners(k)) <= 1 /\ grants[k] <= 1)
  /\ [][\A l \in LockObjs :
          (Acquire(l) /\ lock_ret'[l].ret) => locks[lock_obj[l].lock_key].value = 0]_vars

\* Two lock objects raced for one key: one acquire returned True and its value is
\* the one stored, the other returned False.
C8_Witness ==
  \E l1, l2 \in LockObjs :
    /\ l1 # l2
    /\ lock_obj[l1].lock_key = lock_obj[l2].lock_key
    /\ lock_ret[l1].op = "acquire" /\ lock_ret[l1].ret
    /\ lock_ret[l2].op = "acquire" /\ ~lock_ret[l2].ret
    /\ locks[lock_obj[l1].lock_key].value = lock_obj[l1].lock_value

\* C9: release deletes the key only when the stored value is the releasing
\* object's own value, and otherwise leaves the store as it is (so a failed
\* acquirer, or a holder whose lock expired and was acquired by a successor,
\* does not remove the current holder's key).
C9_ReleaseOnlyOwn ==
  [][\A l \in LockObjs :
       Release(l) =>
         LET key == lock_obj[l].lock_key
             value == lock_obj[l].lock_value
         IN IF value # 0 /\ locks[key].value = value
            THEN locks' = [locks EXCEPT ![key] = NoLock]
            ELSE locks' = locks]_vars

\* A lock object that had acquired the key released after the key expired and a
\* successor acquired it: the release was refused and the successor's key stays.
C9_Witness ==
  \E l \in LockObjs :
    /\ lock_ret[l].op = "release" /\ lock_ret[l].had_value /\ ~lock_ret[l].ret
    /\ lock_ret[l].acquired
    /\ locks[lock_obj[l].lock_key].value # 0

(***************************************************************************)
(* BatchWriter claims, checked under SpecFlush.                            *)
(***************************************************************************)
\* C10: a flush that could not acquire the flush lock makes no upsert, puts the
\* records it copied back in front of the batch, and returns False.
C10_ContentionRequeues ==
  /\ [](\A w \in Writers, t \in FlushSlots :
          (/\ flush[w][t].pc \in {"release", "done"}
           /\ flush[w][t].tweets_to_save # <<>>
           /\ ~flush[w][t].lock_acquired)
            => (flush[w][t].wrote = "none" /\ flush[w][t].ret = "False"))
  /\ [][\A w \in Writers, t \in FlushSlots :
          FlushContention(w, t) =>
            /\ db' = db
            /\ writer'[w].batch = flush[w][t].tweets_to_save \o writer[w].batch]_vars

\* A flush lost the lock and returned False, and a record added while it was
\* waiting for the lock stands behind the records it put back.
C10_Witness ==
  \E w \in Writers, t \in FlushSlots :
    LET saved == flush[w][t].tweets_to_save IN
      /\ flush[w][t].pc = "done"
      /\ ~flush[w][t].lock_acquired
      /\ flush[w][t].ret = "False"
      /\ saved # <<>>
      /\ Len(writer[w].batch) > Len(saved)
      /\ SubSeq(writer[w].batch, 1, Len(saved)) = saved

(***************************************************************************)
(* Consumer and pipeline claims, checked under SpecPipeline, and under     *)
(* FairSpecPipeline where the claim is about what eventually happens.      *)
(***************************************************************************)
\* C5: at-least-once processing.  A message that was handed to a processor is
\* still pending in the group or the hot cache has a record for its id: it is
\* never acknowledged while the cache has no record for it.
C5_AtLeastOnce ==
  \A m \in Msgs :
    (hist.invoked[m] > 0 /\ group.pel[m] = 0) => stream[m] \in cache.hashes

\* C6: a consumer acknowledges a message if and only if its processor completed
\* on it without raising.  What it acknowledged had completed; a message whose
\* processor raised is not acknowledged and stays pending for the consumer; and
\* a message whose processor completed is acknowledged (no longer pending) by
\* the time the consumer has gone on, that is, unless the xack is its very next
\* step.
C6_AckIffCompleted ==
  \A c \in Workers, m \in Msgs :
    /\ <<c, m>> \in hist.acked => <<c, m>> \in hist.completed
    /\ <<c, m>> \in hist.raised => (<<c, m>> \notin hist.acked /\ group.pel[m] = c)
    /\ <<c, m>> \in hist.completed =>
          \/ <<c, m>> \in hist.acked /\ group.pel[m] = 0
          \/ cons[c].pc = "ack" /\ cons[c].cur = m

\* One consumer had a processor raise on one message, which is still pending,
\* and went on to a later message, which it acknowledged.
C6_Witness ==
  \E c \in Workers, m1, m2 \in Msgs :
    /\ m1 < m2
    /\ <<c, m1>> \in hist.raised /\ group.pel[m1] = c
    /\ <<c, m2>> \in hist.acked /\ group.pel[m2] = 0

\* C7: a message whose processor raised is eventually handed to a processor
\* again.
C7_RaisedRedelivered ==
  \A c \in Workers, m \in Msgs :
    (<<c, m>> \in hist.raised) ~> (hist.invoked[m] >= 2)

\* The values the RedisLock of flush call t of writer w can have stored.
StoredBy(w, t) ==
  {k \in LockKeys : locks[k].value \in {2 * FlushOwner(w, t) - 1, 2 * FlushOwner(w, t)}}

\* C11: when the last of the max_retries upsert attempts of a flush has raised
\* (as every one before it), the flush puts the copied records back in front of
\* the batch, adds their number to total_failed and returns False; a flush that
\* held the lock and returned False made max_retries attempts, and when it is
\* over the lock store holds no value of it.
C11_PermanentFailure ==
  /\ [](\A w \in Writers, t \in FlushSlots :
          /\ (flush[w][t].pc \in {"release", "done"} /\ flush[w][t].lock_acquired
                /\ flush[w][t].ret = "False")
               => (flush[w][t].attempt = writer[w].max_retries - 1
                   /\ flush[w][t].wrote = "raised")
          /\ flush[w][t].pc = "done" => StoredBy(w, t) = {})
  /\ [][\A w \in Writers, t \in FlushSlots :
          (FlushAttemptFailed(w, t) /\ flush[w][t].attempt >= writer[w].max_retries - 1)
            => /\ writer'[w].batch = flush[w][t].tweets_to_save \o writer[w].batch
               /\ writer'[w].total_failed =
                    writer[w].total_failed + Len(flush[w][t].tweets_to_save)
               /\ flush'[w][t].ret = "False"
               /\ flush'[w][t].pc = "release"]_vars

\* A flush with the lock failed max_retries times and is over: its records are
\* in front of a record added meanwhile, and counted in total_failed.
C11_Witness ==
  \E w \in Writers, t \in FlushSlots :
    LET saved == flush[w][t].tweets_to_save IN
      /\ flush[w][t].pc = "done"
      /\ flush[w][t].lock_acquired
      /\ flush[w][t].ret = "False"
      /\ flush[w][t].attempt = MaxRetries - 1
      /\ saved # <<>>
      /\ Len(writer[w].batch) > Len(saved)
      /\ SubSeq(writer[w].batch, 1, Len(saved)) = saved
      /\ writer[w].total_failed >= Len(saved)

RECURSIVE Occurrences(_, _)
Occurrences(tweets, r) ==
  IF tweets = <<>> THEN 0
  ELSE (IF Head(tweets) = r THEN 1 ELSE 0) + Occurrences(Tail(tweets), r)

\* In how many of writer w's flush calls, slots 0..t, record r is in the copy
\* that is still to be written.
RECURSIVE InCopies(_, _, _)
InCopies(w, t, r) ==
  IF t < 0 THEN 0
  ELSE (IF flush[w][t].pc \in {"acquire", "acquired", "write"}
        THEN Occurrences(flush[w][t].tweets_to_save, r) ELSE 0)
       + InCopies(w, t - 1, r)

\* Where record r is with the writers 1..w: queued in a batch or in a copy.
RECURSIVE Held(_, _)
Held(w, r) ==
  IF w = 0 THEN 0
  ELSE Occurrences(writer[w].batch, r) + InCopies(w, NumFlushTasks, r) + Held(w - 1, r)

\* C13: with no upsert failure and no cancellation, however add_tweet, the
\* size-triggered flush tasks and the loop's flushes interleave, a record
\* passed to add_tweet is in exactly one place (a batch, the copy of one flush
\* call, or the table after one upsert), so it is in at most one successful
\* upsert.
C13_AtMostOneUpsert ==
  \A r \in Records :
    /\ db[r] <= 1
    /\ r < next_rec => Held(NumWriters, r) + db[r] = 1
    /\ r >= next_rec => Held(NumWriters, r) + db[r] = 0

\* A size-triggered flush task and the loop's flush of one writer are in
\* flight together, each with its own records, one of them already upserted.
C13_Witness ==
  \E w \in Writers, t \in FlushSlots \ {0} :
    /\ flush[w][0].pc \in {"acquired", "write", "written", "release"}
    /\ flush[w][t].pc \in {"acquired", "write", "written", "release"}
    /\ flush[w][0].tweets_to_save # <<>>
    /\ flush[w][t].tweets_to_save # <<>>
    /\ \E i \in 1..Len(flush[w][t].tweets_to_save) : db[flush[w][t].tweets_to_save[i]] = 1

(***************************************************************************)
(* IngestionPipeline claims, checked under SpecLifecycle.                  *)
(***************************************************************************)
\* C14: when stop() has returned and the relational store is healthy, every
\* record that add_tweet accepted before the shutdown has been upserted: the
\* batch is empty and no flush is in flight.
C14_StopFlushesAll ==
  StopReturned =>
    /\ \A id \in hist.added : db[id] >= 1
    /\ writer[PipelineWriter].batch = <<>>
    /\ \A t \in FlushSlots : flush[PipelineWriter][t].pc = "idle"

\* C15: after stop() has returned, the staging buffer of the pipeline's
\* Storage is empty, and every record that went through store is in a staging
\* file.
C15_StopFlushesStaging ==
  StopReturned =>
    /\ staging.buffer = <<>>
    /\ \A id \in hist.added :
          \E f \in 1..Len(staging.files) :
            \E i \in 1..Len(staging.files[f].rows) : staging.files[f].rows[i] = id

\* C18: the lifecycle only moves forward: once a stop() has gone through, the
\* pipeline is not running again, whatever start() calls follow.
C18_StoppedStaysStopped == pipe.stops > 0 => ~pipe.is_running

\* C19: a consumer that is cancelled while it processes the messages of one
\* read has processed every message of that read when its loop has ended, and
\* has acknowledged each one whose processor did not raise.
C19_CancelFinishesBatch ==
  \A c \in PipelineWorkers :
    cons[c].pc = "stopped" =>
      /\ cons[c].msgs = <<>>
      /\ \A m \in Msgs : group.pel[m] = c => <<c, m>> \in hist.raised

\* C20: a message whose fields lack id is acknowledged once the consumer has
\* handled it: it is not left pending.
C20_PoisonAcked ==
  \A c \in PipelineWorkers, m \in Msgs :
    (m <= Len(stream) /\ stream[m] = NoId /\ hist.invoked[m] > 0 /\ cons[c].cur # m)
      => group.pel[m] = 0

(***************************************************************************)
(* Storage claims, checked under SpecStorage.                              *)
(***************************************************************************)
\* C16: after close() has returned, the staging buffer is empty, and the
\* records it found in the buffer are exactly the rows of one staging file
\* written by it, the file named after the current second; no other file is
\* touched, and no file is written for an empty buffer.
C16_CloseFlushesBuffer ==
  /\ [](staging.closed.returned =>
          /\ staging.buffer = <<>>
          /\ staging.closed.had # <<>> =>
                \E n \in Seconds : FileRows(staging.files, n) = staging.closed.had)
  /\ [][\A file_ok \in BOOLEAN :
          (StorageClose(file_ok) /\ staging'.closed.returned) =>
             /\ staging'.buffer = <<>>
             /\ FileRows(staging'.files, staging.now) =
                   IF staging.buffer # <<>> THEN staging.buffer
                   ELSE FileRows(staging.files, staging.now)
             /\ \A n \in Seconds \ {staging.now} :
                   FileRows(staging'.files, n) = FileRows(staging.files, n)]_vars

\* close() has returned after it found records in the buffer: they are the
\* rows of a file, next to a file of an earlier second.
C16_Witness ==
  /\ staging.closed.returned
  /\ staging.closed.had # <<>>
  /\ staging.buffer = <<>>
  /\ Len(staging.files) = 2
  /\ FileRows(staging.files, staging.now) = staging.closed.had

(***************************************************************************)
(* process_tweet claims, checked under SpecPipeline.                       *)
(***************************************************************************)
\* C17: however often the messages of one tweet id go through process_tweet,
\* tweets:recent has one entry for the id and stats:cached_tweets has been
\* incremented once for it.
C17_DuplicateSuppression ==
  /\ \A id \in Ids : Occurrences(cache.recent, id) <= 1
  /\ cache.cached_tweets = Cardinality(cache.hashes)

\* The tweet is in the staging buffer or in a staging file.
InStaging(s, tweet) ==
  \/ Occurrences(s.buffer, tweet) > 0
  \/ \E f \in 1..Len(s.files) : Occurrences(s.files[f].rows, tweet) > 0

\* C21: the two legs of Storage.store are isolated.  The staging leg appends
\* the record and, whether or not its flush fails, the cache leg still gets its
\* turn; the cache write, whether or not it fails, leaves the staging buffer and
\* files as they are, and store returns to process_tweet either way.
C21_LegsIsolated ==
  /\ [][\A c \in Workers, file_ok \in BOOLEAN :
          ProcessStage(c, file_ok) =>
            /\ InStaging(staging', TweetId(c))
            /\ cons'[c].pc = "cache"
            /\ cache' = cache]_vars
  /\ [][\A c \in Workers, ok \in BOOLEAN :
          ProcessCache(c, ok) =>
            /\ staging' = staging
            /\ cons'[c].pc = "add"
            /\ (ok => TweetId(c) \in cache'.hashes)]_vars

\* Two stores have returned: one whose cache write failed, its record in the
\* staging buffer; one whose staging flush failed, its record in the cache.
C21_Witness ==
  \E c1, c2 \in Workers :
    /\ cons[c1].pc = "add" /\ cons[c2].pc = "add"
    /\ TweetId(c1) # TweetId(c2)
    /\ TweetId(c1) \notin cache.hashes
    /\ InStaging(staging, TweetId(c1))
    /\ Len(staging.buffer) >= BufferLimit
    /\ staging.buffer[Len(staging.buffer)] = TweetId(c2)
    /\ TweetId(c2) \in cache.hashes

\* C22: when the write of the staging file fails during a flush, the buffer
\* keeps its records, the stats flushes and staged_tweets stay as they were,
\* and the error is raised to the caller; the buffer is cleared only
\* by a flush whose write succeeded, which counts the flush and its records.
C22_FailedFlushKeepsBuffer ==
  /\ [](staging.raised => staging.buffer # <<>>)
  /\ [][(\/ StorageFlush(FALSE)
         \/ StorageClose(FALSE)
         \/ \E tweet \in Ids : StorageAppend(tweet, FALSE) /\ staging'.raised)
        => /\ \/ staging'.buffer = staging.buffer
              \/ \E tweet \in Ids : staging'.buffer = Append(staging.buffer, tweet)
           /\ staging'.stats = staging.stats
           /\ staging'.raised = (staging'.buffer # <<>>)]_vars
  /\ [][(staging.buffer # <<>> /\ staging'.buffer = <<>>)
        => /\ ~staging'.raised
           /\ staging'.stats.flushes = staging.stats.flushes + 1
           /\ staging'.stats.staged_tweets > staging.stats.staged_tweets
           /\ FileRows(staging'.files, staging.now) # <<>>]_vars

\* A flush has just failed on a buffer that an earlier successful flush had
\* emptied once: the buffer has its records, the stats count the one flush.
C22_Witness ==
  /\ staging.raised
  /\ Len(staging.buffer) >= BufferLimit
  /\ staging.stats.flushes = 1
  /\ staging.stats.staged_tweets = BufferLimit
  /\ Len(staging.files) = 1

\* C23: whatever stores the workers have made, tweets:recent holds at most
\* RecentLimit ids, most recent first: every cache write puts its id at the
\* head, keeps the ids that were there in their order behind it, and drops
\* only from the tail.
C23_RecentBounded ==
  /\ [](Len(cache.recent) <= RecentLimit)
  /\ [][\A c \in Workers :
          ProcessCache(c, TRUE) =>
            /\ cache'.recent[1] = TweetId(c)
            /\ \A i \in 2..Len(cache'.recent) : cache'.recent[i] = cache.recent[i - 1]
            /\ Len(cache'.recent) =
                 IF Len(cache.recent) < RecentLimit THEN Len(cache.recent) + 1
                 ELSE RecentLimit]_vars

\* More tweets have been cached than the list keeps: the list is full.
C23_Witness ==
  /\ cache.cached_tweets > RecentLimit
  /\ Len(cache.recent) = RecentLimit

(***************************************************************************)
(* TweetEnricher claims, checked under SpecEnrich.                         *)
(***************************************************************************)
\* C24: in both backends, an enrich that returns has sentiment neutral with
\* confidence 0.5 whenever the detected language is not English or the cleaned
\* text is shorter than 10 characters, and has asked the sentiment backend
\* exactly when the language is English and the text has at least 10.
C24_NeutralRule ==
  (enr.pc = "done" /\ ~enr.raised) =>
    /\ (enr.language # "en" \/ enr.length < NeutralLength)
         => (enr.sentiment = "neutral" /\ enr.confidence = HalfConfidence)
    /\ enr.consulted <=> (enr.language = "en" /\ enr.length >= NeutralLength)

\* C25: enrich never raises to its caller: when the sentiment backend raises
\* the tweet comes back neutral with confidence 0.5, and when the language
\* detector raises the language is "unknown".
C25_EnrichNeverRaises ==
  enr.pc = "done" =>
    /\ ~enr.raised
    /\ (enr.consulted /\ enr.classifier = "raises")
         => (enr.sentiment = "neutral" /\ enr.confidence = HalfConfidence)
    /\ enr.detector = "raises" => enr.language = "unknown"

(***************************************************************************)
(* The lock store out of reach, checked under SpecFlushOutage and          *)
(* SpecLockOutage.                                                         *)
(***************************************************************************)
\* C26: a failure of the lock store during release is not propagated: a flush
\* whose upsert succeeded still returns True.
C26_ReleaseFailureAbsorbed ==
  \A w \in Writers, t \in FlushSlots :
    (flush[w][t].pc = "done" /\ flush[w][t].wrote = "ok") => flush[w][t].ret = "True"

\* C27: acquire with the lock store out of reach returns a failure value and
\* does not raise, and the caller is not taken to hold the lock.
C27_AcquireFailsClosed ==
  \A l \in LockObjs :
    lock_ret[l].op = "acquire" =>
      /\ ~lock_ret[l].raised
      /\ lock_ret[l].ret = lock_ret[l].acquired

(***************************************************************************)
(* The order of the batch, checked under SpecFlush.                        *)
(***************************************************************************)
\* C28: after any interleaving of add_tweet calls and failed flushes, the batch
\* of a writer holds its records in the order in which they were added (records
\* are numbered as add_tweet accepts them): a record put back in front never
\* stands behind one that was added before it.
C28_QueueInAddedOrder ==
  \A w \in Writers : \A i, j \in 1..Len(writer[w].batch) :
    i < j => writer[w].batch[i] < writer[w].batch[j]

(***************************************************************************)
(* buffer_lock, checked under SpecStaging.                                 *)
(***************************************************************************)
\* C29: buffer_lock is held only around the mutation of the in-memory list:
\* no task holds it while the staging file is being written.
C29_NoWriteUnderBufferLock ==
  ~(staging.buffer_lock.holder # 0 /\ staging.buffer_lock.pc = "writing")

(***************************************************************************)
(* The retry schedule of flush, checked under SpecRetry.                   *)
(***************************************************************************)
\* C30: within one flush that holds the lock, the upsert is attempted at most
\* max_retries times and not again after a success; after the k-th failed
\* attempt, k < max_retries, the flush sleeps 2^(k-1) seconds, and after the
\* last one it does not sleep; it calls extend for 15 s after the second failed
\* attempt and after every later one that is not the last, never after the first.
C30_RetrySchedule ==
  /\ [](\A w \in Writers, t \in FlushSlots :
          LET f == flush[w][t]  k == flush[w][t].attempts IN
            /\ k <= writer[w].max_retries
            /\ f.pc = "sleep" => (k < writer[w].max_retries /\ f.sleep_seconds = 2 ^ (k - 1))
            /\ f.pc = "extend" => (k >= 2 /\ k < writer[w].max_retries)
            /\ f.extends = IF k < 2 THEN 0
                           ELSE IF f.pc = "write" THEN k - 1 ELSE k - 2)
  /\ [][\A w \in Writers, t \in FlushSlots :
          /\ (\E ok \in BOOLEAN : WriteBatchToDb(w, t, ok))
               => (flush[w][t].lock_acquired /\ flush[w][t].wrote # "ok")
          /\ FlushAttemptFailed(w, t)
               => (flush'[w][t].pc = IF flush[w][t].attempts < writer[w].max_retries
                                     THEN "sleep" ELSE "release")
          /\ FlushSucceeded(w, t) => flush'[w][t].pc = "release"
          /\ FlushExtend(w, t)
               => LET key == LockKey(writer[w].batch_size) IN
                    locks'[key] =
                      IF locks[key].value = flush[w][t].lock_value
                      THEN [locks[key] EXCEPT !.pttl = ExtendSeconds * 1000]
                      ELSE locks[key]]_vars

\* A flush of a writer built with max_retries 4 has failed three times: it
\* slept 1 s and 2 s before, extended once, and now sleeps 4 s.
C30_Witness ==
  \E w \in Writers, t \in FlushSlots :
    /\ writer[w].max_retries = MaxRetries + 1
    /\ flush[w][t].lock_acquired
    /\ flush[w][t].pc = "sleep"
    /\ flush[w][t].attempts = 3
    /\ flush[w][t].sleep_seconds = 4
    /\ flush[w][t].extends = 1

(***************************************************************************)
(* The time trigger of run_forever, checked under FairSpecFlushHealthy.    *)
(***************************************************************************)
\* C31: while the background loops run against a healthy lock store and a
\* healthy relational store, a record that waits in a batch shorter than
\* batch_size is eventually upserted; run_forever starts a flush only when the
\* batch has reached batch_size or is non-empty and max_wait_seconds old, and
\* a flush of a shorter batch is one that began max_wait_seconds after the last
\* successful flush.  (The model stops counting at MaxFlushes flush calls; the
\* record is upserted before that or the count is used up.)
C31_WaitTriggeredFlush ==
  /\ \A r \in Records :
       (\E w \in Writers : /\ Occurrences(writer[w].batch, r) > 0
                           /\ Len(writer[w].batch) < writer[w].batch_size)
         ~> (db[r] = 1 \/ FlushesOf(Writers) >= MaxFlushes)
  /\ [][\A w \in Writers :
          RunForever(w) =>
            /\ writer[w].is_running
            /\ \/ Len(writer[w].batch) >= writer[w].batch_size
               \/ /\ writer[w].batch # <<>>
                  /\ writer[w].since_flush >= writer[w].max_wait_seconds
            /\ flush'[w][0].tweets_to_save = writer[w].batch
            /\ writer'[w].batch = <<>>]_vars

\* The loop's flush has upserted a batch of one record, fewer than batch_size:
\* the flush that max_wait_seconds started.
C31_Witness ==
  \E w \in Writers :
    /\ flush[w][0].pc = "done"
    /\ flush[w][0].wrote = "ok"
    /\ Len(flush[w][0].tweets_to_save) = 1
    /\ Len(flush[w][0].tweets_to_save) < writer[w].batch_size
    /\ db[flush[w][0].tweets_to_save[1]] = 1
    /\ writer[w].since_flush = 0

(***************************************************************************)
(* The consumer loop over a failing stream store, checked under            *)
(* SpecConsumerOutage, where no task is cancelled.                         *)
(***************************************************************************)
\* C32: the consumer loop ends only through cancellation: no exception of the
\* processor, of the group creation, of a read or of an acknowledgement ends
\* it, so without a cancellation every consumer is still in its loop.
C32_ConsumerEndsOnlyByCancel ==
  \A c \in PipelineWorkers : cons[c].pc # "error"

(***************************************************************************)
(* The staging buffer and its files, checked under SpecStaging.            *)
(***************************************************************************)
\* C33: after every completed append whose flush, if it triggered one, did not
\* raise, the buffer holds fewer than buffer_limit records, whichever tasks
\* append and flush and in whatever order: reaching buffer_limit flushes and
\* empties the buffer before the append gives buffer_lock back.
C33_BufferBelowLimit ==
  /\ []((staging.buffer_lock.pc \in {"exit", "none"} /\ ~staging.raised)
          => Len(staging.buffer) < BufferLimit)
  /\ [][\A k \in Workers, tweet \in Ids :
          StagingAppendEnter(k, tweet) =>
            (Len(staging'.buffer) >= BufferLimit => staging'.buffer_lock.pc = "flush")]_vars
  /\ [][(StagingWriteEnd(TRUE) /\ staging.buffer # <<>>) =>
          (staging'.buffer = <<>> /\ Len(staging'.files) >= 1)]_vars

\* BufferLimit + 1 appends are over: one flush has written BufferLimit records
\* to a file and one record is buffered.
C33_Witness ==
  /\ staging.buffer_lock.pc = "none"
  /\ ~staging.raised
  /\ Len(staging.buffer) = 1
  /\ Len(staging.files) >= 1
  /\ staging.stats.flushes = 1
  /\ staging.stats.staged_tweets = BufferLimit

(***************************************************************************)
(* The staging files, checked under SpecStorage.                           *)
(***************************************************************************)
\* C34: a staging file, once a flush has written it, is never overwritten or
\* changed by a later flush: every file keeps its rows, with each step.
C34_StagingFilesImmutable ==
  [][\A i \in 1..Len(staging.files) :
       FileRows(staging'.files, staging.files[i].name) = staging.files[i].rows]_vars

(***************************************************************************)
(* extend and the time to live, checked under SpecLock.                    *)
(***************************************************************************)
\* C35: extend on a lock whose stored value is the caller's never leaves the
\* key with less time to live than it had; on any other lock it changes nothing
\* and returns False.
C35_ExtendNeverShortens ==
  [][\A l \in LockObjs, s \in {0, ExtendSeconds} :
       Extend(l, s) =>
         LET key == lock_obj[l].lock_key IN
           IF lock_obj[l].lock_value # 0 /\ locks[key].value = lock_obj[l].lock_value
           THEN locks'[key].pttl >= locks[key].pttl
           ELSE locks' = locks /\ ~lock_ret'[l].ret]_vars

(***************************************************************************)
(* The flush lock during the upserts, checked under SpecFlush.             *)
(***************************************************************************)
\* C36: every upsert attempt of a flush that acquired the lock is made while
\* the lock key still stores the value of that flush: the key does not expire
\* before the last attempt is over.
C36_UpsertUnderLock ==
  \A w \in Writers, t \in FlushSlots :
    (flush[w][t].pc = "write" /\ flush[w][t].lock_acquired)
      => locks[LockKey(writer[w].batch_size)].value = flush[w][t].lock_value

(***************************************************************************)
(* Cancellation between two upsert attempts, checked under                 *)
(* SpecLifecycleRetry.                                                     *)
(***************************************************************************)
\* C37: when the flush that run_forever awaits is cancelled after an upsert
\* attempt has raised (in its backoff sleep or in the extend that follows),
\* the records it had copied out of the batch are not lost: each of them is
\* upserted or back in the batch.
C37_CancelledFlushKeepsRecords ==
  \A t \in FlushSlots :
    LET f == flush[PipelineWriter][t] IN
      (f.ret = "cancelled" /\ f.wrote = "raised")
        => \A i \in 1..Len(f.tweets_to_save) :
             \/ db[f.tweets_to_save[i]] = 1
             \/ Occurrences(writer[PipelineWriter].batch, f.tweets_to_save[i]) > 0

(***************************************************************************)
(* acquire raising inside flush, checked under SpecFlushOutage.            *)
(***************************************************************************)
\* C38: when the lock store raises during the acquire of a flush, the records
\* the flush had copied out of the batch are put back in front of the batch,
\* and nothing is upserted.
C38_AcquireFailureRequeues ==
  [][\A w \in Writers, t \in FlushSlots :
       FlushAcquireUnreachable(w, t) =>
         /\ writer'[w].batch = flush[w][t].tweets_to_save \o writer[w].batch
         /\ db' = db]_vars

(***************************************************************************)
(* The sweep of stale locks, checked under SpecSweep.                      *)
(***************************************************************************)
\* C39: cleanup_stale_locks deletes only keys that have no expiration: whatever
\* acquire, release, expiry and other sweeps do meanwhile, the key a sweep
\* deletes is not one that an owner acquired with a time to live.
C39_SweepDeletesOnlyUnexpiring ==
  [][\A s \in Sweeps :
       (SweepDecide(s) /\ sweep'[s].deleted /\ locks[sweep[s].key].value # 0)
         => locks[sweep[s].key].pttl = NoExpiry]_vars

(***************************************************************************)
(* RedisLock as a context manager, checked under SpecWith.                 *)
(***************************************************************************)
\* C40: the body of async with RedisLock(...) runs only when the lock was
\* acquired: a lock object that is inside its body got True from acquire.
C40_BodyOnlyWhenAcquired ==
  \A l \in LockObjs : lock_ret[l].op = "aenter" => lock_ret[l].ret

====
